---- MODULE Spec2Model ----
(***************************************************************************)
(* State-machine model of the AMD GPU debugger core: the memory region     *)
(* manager (bo.c), the packet encoder (pm4.c), the submission engine and   *)
(* the completion waiter (amdgpu_device.c).  The kernel driver and libdrm  *)
(* are the environment:                                                    *)
(* every driver call either succeeds or fails with a negative errno, and   *)
(* the driver keeps the set of resources that are live.                    *)
(***************************************************************************)
EXTENDS Integers, Sequences, FiniteSets, TLC

VARIABLES
    pc,        \* "idle", "wait" (blocked inside dev_wait) or "aborted" (HDB_ASSERT)
    drv,       \* the driver's view: live handles, mappings, lists, fences
    bo,        \* the caller's region record (amdgpu_bo_t)
    submit,    \* the caller's submission record (amdgpu_submit_t)
    op,        \* name of the last operation the caller invoked
    args,      \* arguments the caller passed to the last operation
    calls,     \* driver calls issued by the last operation, in order
    ret,       \* value returned by the last int32_t operation
    hist,      \* history of the caller's use of the records
    wait,      \* the pending fence query of a blocked dev_wait
    pkts,      \* the caller's packet stream (pkt3_packets_t)
    dev,       \* the caller's device context (amdgpu_t)
    thr        \* the callers that share the device context, one per thread

vars == <<pc, drv, bo, submit, op, args, calls, ret, hist, wait, pkts, dev, thr>>

----------------------------------------------------------------------------
(* Program constants *)

NULL == 0
PAGE_SIZE == 4096
ENOMEM == 12
ETIMEDOUT == 110

AMDGPU_GEM_DOMAIN_GTT == 2
AMDGPU_GEM_DOMAIN_VRAM == 4
AMDGPU_GEM_DOMAIN_GDS == 8
AMDGPU_GEM_DOMAIN_GWS == 16
AMDGPU_GEM_DOMAIN_OA == 32
AMDGPU_HW_IP_COMPUTE == 1

(* Bounds of the model *)
MaxHandles == 2      \* handles the driver can have live per kind
MaxBuffers == 2      \* length of the caller's buffer array in dev_submit
MaxSeq == 1          \* submissions issued in one run
MaxTimeout == 2      \* largest finite timeout_ns, in ticks

Handles == 1..MaxHandles

\* Negative errno values a failing driver call reports (ENOMEM, EINVAL).
DriverErrs == {-12, -22}
Outcomes == {0} \cup DriverErrs

Domains == {AMDGPU_GEM_DOMAIN_GTT, AMDGPU_GEM_DOMAIN_VRAM,
            AMDGPU_GEM_DOMAIN_GDS, AMDGPU_GEM_DOMAIN_GWS, AMDGPU_GEM_DOMAIN_OA}
\* A size_t is kept as its representative modulo 2^64 nearest to zero: n >= 0
\* stands for n and n < 0 for 2^64 + n, so that -1 is SIZE_MAX.  Sums and
\* differences of representatives are the wrapping sums and differences of
\* the values, and since 2^64 is a multiple of every power of two, so are
\* the roundings below.
Sizes == {0, 16, 4097, -4096, -1}

\* Lengths in words of the packet streams handed to dev_submit.
PacketCounts == {0, 3, 1025}

\* a <= b on size_t values.
ULe(a, b) == IF (a >= 0) = (b >= 0) THEN a <= b ELSE a >= 0

\* ALIGN_UP(value, alignment) for a power-of-two alignment:
\* ((value) + (alignment) - 1) & ~((alignment) - 1), in size_t arithmetic.
ALIGN_UP(value, alignment) ==
    ((value + alignment - 1) \div alignment) * alignment

\* The zero-initialised amdgpu_bo_t ({0}).
ZeroBo ==
    [bo_handle |-> NULL, va_handle |-> NULL, va_addr |-> 0,
     host_addr |-> NULL, size |-> 0, kms_handle |-> 0]

ZeroFence ==
    [context |-> NULL, ip_type |-> 0, ip_instance |-> 0, ring |-> 0, fence |-> 0]

\* The zero-initialised amdgpu_submit_t.
ZeroSubmit == [ib |-> ZeroBo, bo_list |-> NULL, fence |-> ZeroFence]

----------------------------------------------------------------------------
(* The driver (libdrm + kernel), as the code uses it.  A context c is the   *)
(* record [drv, calls]; each call appends itself to c.calls with its result *)
(* and returns the new context, the result and the value it hands out.      *)

Call(name, arg, res) == [call |-> name, arg |-> arg, res |-> res]

Log(c, name, arg, res) == Append(c.calls, Call(name, arg, res))

\* Sequencing: the statement `first` runs once, and `rest` runs on what it
\* left behind.
Then(first, rest(_)) == CHOOSE r \in {rest(v) : v \in {first}} : TRUE

LiveBos(d) == {b.h : b \in d.bos}

\* Smallest handle not in use; NULL when the driver has none left.
FreshHandle(used) ==
    IF Handles \subseteq used THEN NULL
    ELSE CHOOSE h \in Handles \ used : \A g \in Handles \ used : h <= g

\* The GEM (kernel-space) handle of a libdrm handle, the VA of a range handle
\* and the CPU address of a mapped region: all non-zero for a valid handle.
KmsOf(h) == h
VaOf(vh) == vh * PAGE_SIZE
HostOf(h) == h

\* amdgpu_bo_alloc(dev_handle, &req, &bo_handle)
drm_bo_alloc(c, req, forced) ==
    LET h == FreshHandle(LiveBos(c.drv))
        res == IF forced # 0 THEN forced ELSE IF h = NULL THEN -ENOMEM ELSE 0
    IN  IF res # 0
        THEN [drv |-> c.drv, calls |-> Log(c, "amdgpu_bo_alloc", NULL, res),
              res |-> res, out |-> NULL]
        ELSE [drv |-> [c.drv EXCEPT !.bos = @ \cup
                          {[h |-> h, size |-> req.alloc_size,
                            align |-> req.phys_alignment,
                            heap |-> req.preferred_heap, flags |-> req.flags]}],
              calls |-> Log(c, "amdgpu_bo_alloc", h, 0),
              res |-> 0, out |-> h]

\* amdgpu_bo_export(bo_handle, amdgpu_bo_handle_type_kms, &kms_handle)
drm_bo_export(c, h, forced) ==
    [drv |-> c.drv, calls |-> Log(c, "amdgpu_bo_export", h, forced),
     res |-> forced, out |-> IF forced = 0 THEN KmsOf(h) ELSE 0]

\* amdgpu_va_range_alloc(dev_handle, general, size, PAGE_SIZE, 0, &va, &vh, 0)
drm_va_range_alloc(c, size, forced) ==
    LET vh == FreshHandle(c.drv.vas)
        res == IF forced # 0 THEN forced ELSE IF vh = NULL THEN -ENOMEM ELSE 0
    IN  IF res # 0
        THEN [drv |-> c.drv, calls |-> Log(c, "amdgpu_va_range_alloc", NULL, res),
              res |-> res, out |-> NULL]
        ELSE [drv |-> [c.drv EXCEPT !.vas = @ \cup {vh}],
              calls |-> Log(c, "amdgpu_va_range_alloc", vh, 0),
              res |-> 0, out |-> vh]

\* DRM_IOCTL_AMDGPU_GEM_VA with operation AMDGPU_VA_OP_MAP
drm_va_map(c, va, forced) ==
    IF forced # 0
    THEN [drv |-> c.drv, calls |-> Log(c, "AMDGPU_VA_OP_MAP", va.handle, forced),
          res |-> forced]
    ELSE [drv |-> [c.drv EXCEPT !.maps = @ \cup {va}],
          calls |-> Log(c, "AMDGPU_VA_OP_MAP", va.handle, 0),
          res |-> 0]

\* DRM_IOCTL_AMDGPU_GEM_VA with operation AMDGPU_VA_OP_UNMAP
drm_va_unmap(c, kms, va_addr, forced) ==
    IF forced # 0
    THEN [drv |-> c.drv, calls |-> Log(c, "AMDGPU_VA_OP_UNMAP", kms, forced),
          res |-> forced]
    ELSE [drv |-> [c.drv EXCEPT !.maps =
                      {m \in @ : ~(m.handle = kms /\ m.va_address = va_addr)}],
          calls |-> Log(c, "AMDGPU_VA_OP_UNMAP", kms, 0),
          res |-> 0]

\* amdgpu_va_range_free(va_handle)
drm_va_range_free(c, vh) ==
    [drv |-> [c.drv EXCEPT !.vas = @ \ {vh}],
     calls |-> Log(c, "amdgpu_va_range_free", vh, 0)]

\* amdgpu_bo_free(bo_handle): the last reference goes, and with it the CPU
\* mapping and the VA mappings the kernel still holds for the object.
drm_bo_free(c, h) ==
    [drv |-> [c.drv EXCEPT !.bos = {b \in @ : b.h # h},
                           !.cpu = {m \in @ : m.h # h},
                           !.maps = {m \in @ : m.handle # KmsOf(h)}],
     calls |-> Log(c, "amdgpu_bo_free", h, 0)]

\* The CPU view of a region.  Every length the model hands to memset and
\* memcpy is one of Cuts (a requested length or the region size it rounds to), so the bytes of a region fall into cells that a
\* call writes wholly or not at all: the cell e is the bytes from the cut
\* below e up to e.  The view maps each cell of the region to what its bytes
\* hold: "zero", the bytes of one of the caller's data blocks at the same
\* offsets, or "junk" (never written since the mapping was made).
Lengths == Sizes \cup {n * 4 : n \in PacketCounts}
Cuts == Lengths \cup {ALIGN_UP(s, PAGE_SIZE) : s \in Lengths}

\* The cells within the first n bytes.
CellsIn(n) == {e \in Cuts \ {0} : ULe(e, n)}

\* The size of the live object h.
SizeOf(d, h) == (CHOOSE o \in d.bos : o.h = h).size

\* amdgpu_bo_cpu_map(bo_handle, &host_addr)
drm_bo_cpu_map(c, h, forced) ==
    IF forced # 0
    THEN [drv |-> c.drv, calls |-> Log(c, "amdgpu_bo_cpu_map", h, forced),
          res |-> forced, out |-> NULL]
    ELSE [drv |-> [c.drv EXCEPT !.cpu = @ \cup
                      {[h |-> h, mem |-> [e \in CellsIn(SizeOf(c.drv, h)) |-> "junk"]]}],
          calls |-> Log(c, "amdgpu_bo_cpu_map", h, 0),
          res |-> 0, out |-> HostOf(h)]

\* amdgpu_bo_cpu_unmap(bo_handle): 0, or a negative errno with the mapping
\* left in place.
drm_bo_cpu_unmap(c, h, forced) ==
    IF forced # 0
    THEN [drv |-> c.drv, calls |-> Log(c, "amdgpu_bo_cpu_unmap", h, forced)]
    ELSE [drv |-> [c.drv EXCEPT !.cpu = {m \in @ : m.h # h}],
          calls |-> Log(c, "amdgpu_bo_cpu_unmap", h, 0)]

\* memset(host_addr, 0x0, actual_size)
mem_set(c, host, size) ==
    [drv |-> [c.drv EXCEPT !.cpu =
                 {IF HostOf(m.h) = host
                  THEN [m EXCEPT !.mem = [e \in DOMAIN @ |->
                                            IF e \in CellsIn(size) THEN "zero" ELSE @[e]]]
                  ELSE m : m \in @}],
     calls |-> Log(c, "memset", host, 0)]

\* Mutant: the copy also clears the bytes behind the block.
mem_copy_clears_rest(c, host, data, size) ==
    [drv |-> [c.drv EXCEPT !.cpu =
                 {IF HostOf(m.h) = host
                  THEN [m EXCEPT !.mem = [e \in DOMAIN @ |->
                                            IF e \in CellsIn(size) THEN data ELSE "zero"]]
                  ELSE m : m \in @}],
     calls |-> Log(c, "memcpy", host, 0)]

\* memcpy(bo->host_addr, data, size)
mem_copy(c, host, data, size) ==
    [drv |-> [c.drv EXCEPT !.cpu =
                 {IF HostOf(m.h) = host
                  THEN [m EXCEPT !.mem = [e \in DOMAIN @ |->
                                            IF e \in CellsIn(size) THEN data ELSE @[e]]]
                  ELSE m : m \in @}],
     calls |-> Log(c, "memcpy", host, 0)]

\* malloc(sizeof(amdgpu_bo_handle) * n): NULL when the heap is exhausted.
drm_malloc(c, n, fails) ==
    [drv |-> c.drv, calls |-> Log(c, "malloc", IF fails THEN NULL ELSE 1, 0),
     out |-> IF fails THEN NULL ELSE 1]

\* free(bo_handles)
drm_free(c) == [drv |-> c.drv, calls |-> Log(c, "free", 1, 0)]

\* amdgpu_bo_list_create(dev_handle, n, bo_handles, NULL, &bo_list)
drm_bo_list_create(c, n, bo_handles, forced) ==
    LET lh == FreshHandle(c.drv.lists)
        res == IF forced # 0 THEN forced ELSE IF lh = NULL THEN -ENOMEM ELSE 0
    IN  IF res # 0
        THEN [drv |-> c.drv, calls |-> Log(c, "amdgpu_bo_list_create", NULL, res),
              res |-> res, out |-> NULL]
        ELSE [drv |-> [c.drv EXCEPT !.lists = @ \cup {lh}],
              calls |-> Append(c.calls,
                               [call |-> "amdgpu_bo_list_create", arg |-> lh,
                                res |-> 0, handles |-> SubSeq(bo_handles, 1, n)]),
              res |-> 0, out |-> lh]

\* amdgpu_bo_list_destroy(bo_list)
drm_bo_list_destroy(c, lh) ==
    [drv |-> [c.drv EXCEPT !.lists = @ \ {lh}],
     calls |-> Log(c, "amdgpu_bo_list_destroy", lh, 0)]

\* amdgpu_cs_submit(ctx_handle, 0, &req, 1): the driver takes the request
\* and hands back the next sequence number in req.seq_no.  `hangs` is the
\* hardware's fate for this submission: a hung one never signals its fence.
drm_cs_submit(c, ctx, req, forced, hangs) ==
    IF forced # 0
    THEN [drv |-> c.drv, calls |-> Log(c, "amdgpu_cs_submit", NULL, forced),
          res |-> forced, out |-> 0]
    ELSE LET seq_no == c.drv.seq + 1
         IN  [drv |-> [c.drv EXCEPT !.seq = seq_no,
                                    !.hung = IF hangs THEN @ \cup {seq_no} ELSE @],
              calls |-> Append(c.calls,
                               [call |-> "amdgpu_cs_submit", arg |-> seq_no,
                                res |-> 0, ctx |-> ctx, req |-> req]),
              res |-> 0, out |-> seq_no]

----------------------------------------------------------------------------
(* Memory Region Manager (bo.c).  `f` gives the outcome the driver has in   *)
(* store for each call the operation may issue (0 or a negative errno).     *)

\* What an int32_t operation on a region hands back to its caller.
BoResult(c, r, b, dead) == [drv |-> c.drv, calls |-> c.calls, ret |-> r, bo |-> b,
                            aborted |-> dead]

\* The context an operation leaves for the statement after it.
Ctx(r) == [drv |-> r.drv, calls |-> r.calls]

\* The unwinding of bo_alloc after each failing stage.
unwind_export(c, bo_handle) == drm_bo_free(c, bo_handle)

unwind_va_alloc(c, bo_handle) == drm_bo_free(c, bo_handle)

\* Mutant: the failed-map path forgets the VA range.
unwind_map_leak(c, va_handle, bo_handle) == drm_bo_free(c, bo_handle)

unwind_map(c, va_handle, bo_handle) ==
    Then(drm_va_range_free(c, va_handle), LAMBDA u1 :
    drm_bo_free(u1, bo_handle))

unwind_cpu_map(c, kms_handle, va_addr, va_handle, bo_handle, forced) ==
    Then(drm_va_unmap(c, kms_handle, va_addr, forced), LAMBDA u1 :
    Then(drm_va_range_free(u1, va_handle), LAMBDA u2 :
    drm_bo_free(u2, bo_handle)))

\* Mutant: the output record is filled before the CPU mapping is tried.
bo_alloc_cpu_fills_early(c, req, kms_handle, va_handle, va_addr, bo_handle, f, bo_in) ==
    LET filled == [bo_handle |-> bo_handle, va_handle |-> va_handle,
                   va_addr |-> va_addr, host_addr |-> NULL,
                   size |-> req.alloc_size, kms_handle |-> kms_handle]
    IN  IF "CPU_ACCESS_REQUIRED" \in req.flags
        THEN Then(drm_bo_cpu_map(c, bo_handle, f.cpu_map), LAMBDA c5 :
             IF c5.res # 0
             THEN BoResult(unwind_cpu_map(c5, kms_handle, va_addr, va_handle,
                                          bo_handle, f.unmap),
                           c5.res, filled, FALSE)
             ELSE BoResult(mem_set(c5, c5.out, req.alloc_size), 0,
                           [filled EXCEPT !.host_addr = c5.out], FALSE))
        ELSE BoResult(c, 0, filled, FALSE)

\* bo_alloc, from the CPU mapping stage on.
bo_alloc_cpu(c, req, kms_handle, va_handle, va_addr, bo_handle, f, bo_in) ==
    LET filled == [bo_handle |-> bo_handle, va_handle |-> va_handle,
                   va_addr |-> va_addr, host_addr |-> NULL,
                   size |-> req.alloc_size, kms_handle |-> kms_handle]
    IN  IF "CPU_ACCESS_REQUIRED" \in req.flags
        THEN Then(drm_bo_cpu_map(c, bo_handle, f.cpu_map), LAMBDA c5 :
             IF c5.res # 0
             THEN BoResult(unwind_cpu_map(c5, kms_handle, va_addr, va_handle,
                                          bo_handle, f.unmap),
                           c5.res, bo_in, FALSE)
             ELSE BoResult(mem_set(c5, c5.out, req.alloc_size), 0,
                           [filled EXCEPT !.host_addr = c5.out], FALSE))
        ELSE BoResult(c, 0, filled, FALSE)

\* bo_alloc, from the reservation of the VA range on.
bo_alloc_va(c, req, uncached, kms_handle, bo_handle, f, bo_in) ==
    Then(drm_va_range_alloc(c, req.alloc_size, f.va_alloc), LAMBDA c3 :
    IF c3.res # 0
    THEN BoResult(unwind_va_alloc(c3, bo_handle), c3.res, bo_in, FALSE)
    ELSE
    LET va_handle == c3.out
        va_addr == VaOf(va_handle)
        map_flags == {"EXECUTABLE", "READABLE", "WRITEABLE"}
                     \cup (IF uncached THEN {"MTYPE_UC", "NOALLOC"} ELSE {})
        va == [handle |-> kms_handle, flags |-> map_flags,
               va_address |-> va_addr, offset_in_bo |-> 0,
               map_size |-> req.alloc_size]
    IN  Then(drm_va_map(c3, va, f.map), LAMBDA c4 :
        IF c4.res # 0
        THEN BoResult(unwind_map(c4, va_handle, bo_handle), c4.res, bo_in, FALSE)
        ELSE bo_alloc_cpu(c4, req, kms_handle, va_handle, va_addr, bo_handle,
                          f, bo_in)))

\* Mutant: the OA domain is treated as a normal domain.
bo_alloc_oa_normal(d, size, domain, uncached, f, bo_in) ==
    LET special == domain \in {AMDGPU_GEM_DOMAIN_GWS, AMDGPU_GEM_DOMAIN_GDS}
        actual_size == IF special THEN size ELSE ALIGN_UP(size, PAGE_SIZE)
        alignment == IF special THEN 1 ELSE PAGE_SIZE
        flags == IF special THEN {"NO_CPU_ACCESS"}
                 ELSE {"CPU_ACCESS_REQUIRED", "VRAM_CLEARED", "VM_ALWAYS_VALID"}
                      \cup (IF uncached /\ domain = AMDGPU_GEM_DOMAIN_GTT
                            THEN {"CPU_GTT_USWC"} ELSE {})
        req == [alloc_size |-> actual_size, phys_alignment |-> alignment,
                preferred_heap |-> domain, flags |-> flags]
    IN  Then(drm_bo_alloc([drv |-> d, calls |-> <<>>], req, f.alloc), LAMBDA c1 :
        IF c1.res # 0 THEN BoResult(c1, c1.res, bo_in, FALSE)
        ELSE
        Then(drm_bo_export(c1, c1.out, f.export), LAMBDA c2 :
        IF c2.res # 0
        THEN BoResult(unwind_export(c2, c1.out), c2.res, bo_in, FALSE)
        ELSE bo_alloc_va(c2, req, uncached, c2.out, c1.out, f, bo_in)))

\* int32_t bo_alloc(dev, size, domain, uncached, bo), called with the driver
\* in state d; bo_in is the caller's record, returned untouched on failure.
bo_alloc(d, size, domain, uncached, f, bo_in) ==
    LET special == domain \in {AMDGPU_GEM_DOMAIN_GWS, AMDGPU_GEM_DOMAIN_GDS,
                               AMDGPU_GEM_DOMAIN_OA}
        actual_size == IF special THEN size ELSE ALIGN_UP(size, PAGE_SIZE)
        alignment == IF special THEN 1 ELSE PAGE_SIZE
        flags == IF special THEN {"NO_CPU_ACCESS"}
                 ELSE {"CPU_ACCESS_REQUIRED", "VRAM_CLEARED", "VM_ALWAYS_VALID"}
                      \cup (IF uncached /\ domain = AMDGPU_GEM_DOMAIN_GTT
                            THEN {"CPU_GTT_USWC"} ELSE {})
        req == [alloc_size |-> actual_size, phys_alignment |-> alignment,
                preferred_heap |-> domain, flags |-> flags]
    IN  Then(drm_bo_alloc([drv |-> d, calls |-> <<>>], req, f.alloc), LAMBDA c1 :
        IF c1.res # 0 THEN BoResult(c1, c1.res, bo_in, FALSE)
        ELSE
        Then(drm_bo_export(c1, c1.out, f.export), LAMBDA c2 :
        IF c2.res # 0
        THEN BoResult(unwind_export(c2, c1.out), c2.res, bo_in, FALSE)
        ELSE bo_alloc_va(c2, req, uncached, c2.out, c1.out, f, bo_in)))

\* Mutant: an oversized block is cut to the region's size instead of aborting.
bo_upload_partial(c, b, data, size) ==
    IF b.host_addr = NULL THEN BoResult(c, 0, b, TRUE)
    ELSE IF ~ULe(size, b.size)
    THEN BoResult(mem_copy(c, b.host_addr, data, b.size), 0, b, FALSE)
    ELSE BoResult(mem_copy(c, b.host_addr, data, size), 0, b, FALSE)

\* void bo_upload(bo, data, size): both preconditions are HDB_ASSERTs.
bo_upload(c, b, data, size) ==
    IF b.host_addr = NULL \/ ~ULe(size, b.size)
    THEN BoResult(c, 0, b, TRUE)
    ELSE BoResult(mem_copy(c, b.host_addr, data, size), 0, b, FALSE)

\* bo_free: "Unmap CPU if mapped"; what the unmap returns is not looked at.
bo_free_cpu(c, b, forced) ==
    IF b.host_addr # NULL
    THEN BoResult(drm_bo_cpu_unmap(c, b.bo_handle, forced), 0,
                  [b EXCEPT !.host_addr = NULL], FALSE)
    ELSE BoResult(c, 0, b, FALSE)

\* Mutant: a failed unmap stops the release of the VA range.
bo_free_va_stop(c, b, forced) ==
    IF b.va_handle # NULL
    THEN Then(drm_va_unmap(c, b.kms_handle, b.va_addr, forced), LAMBDA u :
         IF u.res # 0 THEN BoResult(u, 0, b, FALSE)
         ELSE BoResult(drm_va_range_free(u, b.va_handle), 0,
                       [b EXCEPT !.va_handle = NULL], FALSE))
    ELSE BoResult(c, 0, b, FALSE)

\* bo_free: "Unmap GPU VA"; a failed unmap is logged and the release goes on.
bo_free_va(c, b, forced) ==
    IF b.va_handle # NULL
    THEN Then(drm_va_unmap(c, b.kms_handle, b.va_addr, forced), LAMBDA u :
         BoResult(drm_va_range_free(u, b.va_handle), 0,
                  [b EXCEPT !.va_handle = NULL], FALSE))
    ELSE BoResult(c, 0, b, FALSE)

\* bo_free: "Free BO".
bo_free_bo(c, b) ==
    BoResult(drm_bo_free(c, b.bo_handle), 0, [b EXCEPT !.bo_handle = NULL], FALSE)

\* Mutant: the allocation handle is released before the VA range.
bo_free_bo_first(c, b, f) ==
    IF b.bo_handle = NULL THEN BoResult(c, 0, b, FALSE)
    ELSE
    Then(bo_free_cpu(c, b, f.cpu_unmap), LAMBDA r1 :
    Then(bo_free_bo(Ctx(r1), r1.bo), LAMBDA r2 :
    Then(bo_free_va(Ctx(r2), r2.bo, f.unmap), LAMBDA r3 :
    BoResult(r3, 0, [r3.bo EXCEPT !.bo_handle = NULL], FALSE))))

\* Mutant: no check for a record that is already released.
bo_free_unguarded(c, b, f) ==
    Then(bo_free_cpu(c, b, f.cpu_unmap), LAMBDA r1 :
    Then(bo_free_va(Ctx(r1), r1.bo, f.unmap), LAMBDA r2 :
    bo_free_bo(Ctx(r2), r2.bo)))

\* void bo_free(dev, bo)
bo_free(c, b, f) ==
    IF b.bo_handle = NULL THEN BoResult(c, 0, b, FALSE)
    ELSE
    Then(bo_free_cpu(c, b, f.cpu_unmap), LAMBDA r1 :
    Then(bo_free_va(Ctx(r1), r1.bo, f.unmap), LAMBDA r2 :
    bo_free_bo(Ctx(r2), r2.bo)))

----------------------------------------------------------------------------
(* Submission Engine and Completion Waiter (amdgpu_device.c).               *)

\* dev->ctx_handle, the submission context amdgpu_device_init created.
CtxHandle == 1

\* pkt3_size(packets): the stream's length in bytes.
pkt3_size(packets) == packets.count * 4

SubResult(c, r, sub, dead) ==
    [drv |-> c.drv, calls |-> c.calls, ret |-> r, submit |-> sub, aborted |-> dead]

\* Mutant: the IB handle goes last instead of first.
build_bo_handles_ib_last(ib_handle, buffers) == Append(buffers, ib_handle)

\* bo_handles[0] = ib.bo_handle; for_range(i, 0, buffers_count)
\*     bo_handles[i + 1] = buffers[i];
build_bo_handles(ib_handle, buffers) ==
    [i \in 1..(Len(buffers) + 1) |->
        IF i = 1 THEN ib_handle ELSE buffers[i - 1]]

\* Mutant: the failed submission leaves the buffer list behind.
submit_failed_leak(c, ib, bo_list, f) == bo_free(c, ib, f)

\* dev_submit, after amdgpu_cs_submit failed: the buffer list is destroyed
\* and the IB released.
submit_failed(c, ib, bo_list, f) ==
    Then(drm_bo_list_destroy(c, bo_list), LAMBDA d1 :
    bo_free(d1, ib, f))

\* Mutant: the descriptor gives the stream's length in bytes.
dev_submit_cs_bytes(c, ib, bo_list, packets, f, sub_in) ==
    LET ib_info == [flags |-> 0, ib_mc_address |-> ib.va_addr,
                    size |-> pkt3_size(packets)]
        req == [flags |-> 0, ip_type |-> AMDGPU_HW_IP_COMPUTE, ip_instance |-> 0,
                ring |-> 0, resources |-> bo_list, number_of_dependencies |-> 0,
                number_of_ibs |-> 1, ibs |-> <<ib_info>>, seq_no |-> 0]
    IN  Then(drm_cs_submit(c, CtxHandle, req, f.submit, f.hangs), LAMBDA s :
        IF s.res # 0
        THEN Then(submit_failed(s, ib, bo_list, f), LAMBDA r :
             SubResult(r, s.res, sub_in, FALSE))
        ELSE SubResult(s, 0,
                       [ib |-> ib, bo_list |-> bo_list,
                        fence |-> [context |-> CtxHandle,
                                   ip_type |-> AMDGPU_HW_IP_COMPUTE,
                                   ip_instance |-> 0, ring |-> 0,
                                   fence |-> s.out]],
                       FALSE))

\* dev_submit, from the preparation of the request on.
dev_submit_cs(c, ib, bo_list, packets, f, sub_in) ==
    LET ib_info == [flags |-> 0, ib_mc_address |-> ib.va_addr,
                    size |-> packets.count]
        req == [flags |-> 0, ip_type |-> AMDGPU_HW_IP_COMPUTE, ip_instance |-> 0,
                ring |-> 0, resources |-> bo_list, number_of_dependencies |-> 0,
                number_of_ibs |-> 1, ibs |-> <<ib_info>>, seq_no |-> 0]
    IN  Then(drm_cs_submit(c, CtxHandle, req, f.submit, f.hangs), LAMBDA s :
        IF s.res # 0
        THEN Then(submit_failed(s, ib, bo_list, f), LAMBDA r :
             SubResult(r, s.res, sub_in, FALSE))
        ELSE SubResult(s, 0,
                       [ib |-> ib, bo_list |-> bo_list,
                        fence |-> [context |-> CtxHandle,
                                   ip_type |-> AMDGPU_HW_IP_COMPUTE,
                                   ip_instance |-> 0, ring |-> 0,
                                   fence |-> s.out]],
                       FALSE))

\* dev_submit, from the building of the buffer list on.
dev_submit_list(c, ib, packets, buffers, f, sub_in) ==
    Then(drm_malloc(c, Len(buffers) + 1, f.malloc), LAMBDA m :
    IF m.out = NULL
    THEN Then(bo_free(m, ib, f), LAMBDA r :
         SubResult(r, -ENOMEM, sub_in, FALSE))
    ELSE
    Then(drm_bo_list_create(m, Len(buffers) + 1,
                            build_bo_handles(ib.bo_handle, buffers), f.list),
         LAMBDA l :
    Then(drm_free(l), LAMBDA l1 :
    IF l.res # 0
    THEN Then(bo_free(l1, ib, f), LAMBDA r :
         SubResult(r, l.res, sub_in, FALSE))
    ELSE dev_submit_cs(l1, ib, l.out, packets, f, sub_in))))

\* Mutant: the IB is allocated for the stream's length in words, not bytes.
dev_submit_alloc_words(d, packets, buffers, f, sub_in) ==
    Then(bo_alloc(d, packets.count, AMDGPU_GEM_DOMAIN_GTT, FALSE, f, ZeroBo),
         LAMBDA a :
    IF a.ret # 0 THEN SubResult(a, a.ret, sub_in, FALSE)
    ELSE
    Then(bo_upload(Ctx(a), a.bo, "packets", pkt3_size(packets)), LAMBDA u :
    IF u.aborted THEN SubResult(u, 0, sub_in, TRUE)
    ELSE dev_submit_list(Ctx(u), a.bo, packets, buffers, f, sub_in)))

\* int32_t dev_submit(dev, packets, buffers, buffers_count, submit)
dev_submit(d, packets, buffers, f, sub_in) ==
    Then(bo_alloc(d, pkt3_size(packets), AMDGPU_GEM_DOMAIN_GTT, FALSE, f, ZeroBo),
         LAMBDA a :
    IF a.ret # 0 THEN SubResult(a, a.ret, sub_in, FALSE)
    ELSE
    Then(bo_upload(Ctx(a), a.bo, "packets", pkt3_size(packets)), LAMBDA u :
    IF u.aborted THEN SubResult(u, 0, sub_in, TRUE)
    ELSE dev_submit_list(Ctx(u), a.bo, packets, buffers, f, sub_in)))

\* Mutant: a fence that has not expired is reported as success.
dev_wait_timeout_ok(query_ret, expired) ==
    IF query_ret # 0 THEN query_ret ELSE 0

\* Mutant: a failed query is reported as a timeout.
dev_wait_conflated(query_ret, expired) ==
    IF query_ret # 0 \/ expired = 0 THEN -ETIMEDOUT ELSE 0

\* Mutant: a timeout is reported with a generic error code.
dev_wait_generic(query_ret, expired) ==
    IF query_ret # 0 THEN query_ret
    ELSE IF expired = 0 THEN -ENOMEM
    ELSE 0

\* The return value of dev_wait, given what amdgpu_cs_query_fence_status
\* returned and stored in `expired`.
dev_wait(query_ret, expired) ==
    IF query_ret # 0 THEN query_ret
    ELSE IF expired = 0 THEN -ETIMEDOUT
    ELSE 0

\* Mutant: the IB region is released before the buffer list is destroyed.
dev_submit_cleanup_ib_first(c, sub, f) ==
    Then(bo_free(c, sub.ib, f), LAMBDA r :
    IF sub.bo_list # NULL
    THEN SubResult(drm_bo_list_destroy(r, sub.bo_list), 0,
                   [sub EXCEPT !.ib = r.bo, !.bo_list = NULL], FALSE)
    ELSE SubResult(r, 0, [sub EXCEPT !.ib = r.bo], FALSE))

\* void dev_submit_cleanup(dev, submit)
dev_submit_cleanup(c, sub, f) ==
    Then(IF sub.bo_list # NULL
         THEN SubResult(drm_bo_list_destroy(c, sub.bo_list), 0,
                        [sub EXCEPT !.bo_list = NULL], FALSE)
         ELSE SubResult(c, 0, sub, FALSE), LAMBDA s1 :
    Then(bo_free(Ctx(s1), s1.submit.ib, f), LAMBDA r :
    SubResult(r, 0, [s1.submit EXCEPT !.ib = r.bo], FALSE)))

----------------------------------------------------------------------------
(* Packet Encoder (pm4.h, pm4.c, bo.h).  A uint32_t or uint64_t value is    *)
(* the set of the positions of its 1 bits, so that |, &, << and >> are the  *)
(* set operations they are on the machine and no value outgrows the         *)
(* checker's integers.                                                      *)

\* The value with the bits of the non-negative integer n (n < 2^31).
Bits(n) == {i \in 0..30 : (n \div (2 ^ i)) % 2 = 1}

\* The integer a value stands for (defined for values below 2^31).
RECURSIVE Val(_)
Val(w) ==
    IF w = {} THEN 0
    ELSE LET i == CHOOSE j \in w : TRUE IN (2 ^ i) + Val(w \ {i})

\* w << k and w >> k in a type of `width` bits.
Shl(w, k, width) == {i + k : i \in w} \cap (0..(width - 1))
Shr(w, k) == {i - k : i \in {j \in w : j >= k}}

\* (uint32_t)w
U32(w) == w \cap (0..31)

PKT3_DISPATCH_DIRECT == 21     \* 0x15
PKT3_ACQUIRE_MEM == 88         \* 0x58
PKT3_SET_SH_REG == 118         \* 0x76
PKT3_RELEASE_MEM == 73         \* 0x49

SI_SH_REG_OFFSET == 11264      \* 0x2C00
SI_SH_REG_END == 12288         \* 0x3000

R_00B848_COMPUTE_PGM_RSRC1 == 47176
R_00B84C_COMPUTE_PGM_RSRC2 == 47180
R_00B8A0_COMPUTE_PGM_RSRC3 == 47264
R_00B830_COMPUTE_PGM_LO == 47152
R_00B834_COMPUTE_PGM_HI == 47156
R_00B81C_COMPUTE_NUM_THREAD_X == 47132
R_00B820_COMPUTE_NUM_THREAD_Y == 47136
R_00B824_COMPUTE_NUM_THREAD_Z == 47140

COMPUTE_DISPATCH_INITIATOR_COMPUTE_SHADER_EN == Shl(Bits(1), 0, 32)
COMPUTE_DISPATCH_INITIATOR_FORCE_START_AT_000 == Shl(Bits(1), 1, 32)

\* PKT3(op, count, predicate):
\*   (3 << 30) | ((op & 0xFF) << 8) | (count & 0x3FFF) | (predicate << 31)
\* The shifts are int shifts into the sign bit, which the compilers the
\* project builds with (gcc, clang) define as two's-complement shifts; the
\* result is stored as a uint32_t.
PKT3(opcode, count, predicate) ==
    Shl(Bits(3), 30, 32)
    \cup Shl(Bits(opcode) \cap Bits(255), 8, 32)
    \cup (Bits(count) \cap Bits(16383))
    \cup Shl(Bits(predicate), 31, 32)

\* PKT3_SHADER_TYPE_S(shader_type): ((shader_type) & 0x1) << 1
PKT3_SHADER_TYPE_S(shader_type) == Shl(Bits(shader_type) \cap Bits(1), 1, 32)

\* The pkt3_packets_t after pkt3_init; data is the sequence of the dwords
\* data[0..count-1].
ZeroPackets == [data |-> <<>>, count |-> 0, capacity |-> 0]

pkt3_init(pk) == [data |-> <<>>, count |-> 0, capacity |-> 0]

\* What a builder hands on: the stream, the calls issued so far, and whether
\* an HDB_ASSERT has ended the process (nothing runs after it).
PktResult(pk, cs, dead) == [packets |-> pk, calls |-> cs, aborted |-> dead]

\* HDB_ASSERT(cond, msg) with a false condition: abort().
hdb_abort(r, msg) ==
    [r EXCEPT !.calls = Append(@, Call("abort", msg, 0)), !.aborted = TRUE]

\* Mutant: the array is grown one append early, while a slot is still free.
da_append_grow_early(r, value, oom) ==
    IF r.aborted THEN r
    ELSE
    LET pk == r.packets
        grow == pk.count + 1 >= pk.capacity
        new_cap == IF pk.capacity = 0 THEN 64 ELSE pk.capacity * 2
    IN  IF grow /\ oom
        THEN hdb_abort([r EXCEPT !.calls = Append(@, Call("realloc", new_cap, NULL)),
                                 !.packets.data = <<>>],
                       "realloc failed for packet array")
        ELSE [r EXCEPT !.calls = IF grow
                                 THEN Append(@, Call("realloc", new_cap, 1))
                                 ELSE @,
                       !.packets = [data |-> Append(pk.data, value),
                                    count |-> pk.count + 1,
                                    capacity |-> IF grow THEN new_cap
                                                 ELSE pk.capacity]]

\* da_append(packets, value); oom: realloc returns NULL when it is called.
da_append(r, value, oom) ==
    IF r.aborted THEN r
    ELSE
    LET pk == r.packets
        grow == pk.count >= pk.capacity
        new_cap == IF pk.capacity = 0 THEN 64 ELSE pk.capacity * 2
    IN  IF grow /\ oom
        THEN hdb_abort([r EXCEPT !.calls = Append(@, Call("realloc", new_cap, NULL)),
                                 !.packets.data = <<>>],
                       "realloc failed for packet array")
        ELSE [r EXCEPT !.calls = IF grow
                                 THEN Append(@, Call("realloc", new_cap, 1))
                                 ELSE @,
                       !.packets = [data |-> Append(pk.data, value),
                                    count |-> pk.count + 1,
                                    capacity |-> IF grow THEN new_cap
                                                 ELSE pk.capacity]]

\* da_append of the dwords of ws, in order.
RECURSIVE da_append_all(_, _, _)
da_append_all(r, ws, oom) ==
    IF ws = <<>> THEN r
    ELSE Then(da_append(r, Head(ws), oom), LAMBDA r1 :
         da_append_all(r1, Tail(ws), oom))

\* Mutant: the end of the SH register window is taken as inside it.
pkt3_set_sh_reg_end_inclusive(r, reg, value, oom) ==
    IF r.aborted THEN r
    ELSE IF ~(reg >= SI_SH_REG_OFFSET /\ reg <= SI_SH_REG_END)
    THEN hdb_abort(r, "register offset outside SH register range")
    ELSE da_append_all(r, <<PKT3(PKT3_SET_SH_REG, 1, 0),
                            Bits((reg - SI_SH_REG_OFFSET) \div 4),
                            value>>, oom)

\* Mutant: the header goes into the stream before the offset is checked.
pkt3_set_sh_reg_check_late(r, reg, value, oom) ==
    IF r.aborted THEN r
    ELSE Then(da_append(r, PKT3(PKT3_SET_SH_REG, 1, 0), oom), LAMBDA h :
         IF h.aborted THEN h
         ELSE IF ~(reg >= SI_SH_REG_OFFSET /\ reg < SI_SH_REG_END)
         THEN hdb_abort(h, "register offset outside SH register range")
         ELSE da_append_all(h, <<Bits((reg - SI_SH_REG_OFFSET) \div 4),
                                 value>>, oom))

\* void pkt3_set_sh_reg(packets, reg, value)
pkt3_set_sh_reg(r, reg, value, oom) ==
    IF r.aborted THEN r
    ELSE IF ~(reg >= SI_SH_REG_OFFSET /\ reg < SI_SH_REG_END)
    THEN hdb_abort(r, "register offset outside SH register range")
    ELSE da_append_all(r, <<PKT3(PKT3_SET_SH_REG, 1, 0),
                            Bits((reg - SI_SH_REG_OFFSET) \div 4),
                            value>>, oom)

\* void pkt3_dispatch_direct(packets, dim_x, dim_y, dim_z, dispatch_initiator)
pkt3_dispatch_direct(r, dim_x, dim_y, dim_z, dispatch_initiator, oom) ==
    IF r.aborted THEN r
    ELSE da_append_all(r, <<PKT3(PKT3_DISPATCH_DIRECT, 3, 0)
                               \cup PKT3_SHADER_TYPE_S(1),
                            dim_x, dim_y, dim_z, dispatch_initiator>>, oom)

\* void pkt3_acquire_mem(packets)
pkt3_acquire_mem(r, oom) ==
    IF r.aborted THEN r
    ELSE
    LET cp_coher_cntl == Shl(Bits(1), 0, 32) \cup Shl(Bits(1), 1, 32)
                         \cup Shl(Bits(1), 3, 32) \cup Shl(Bits(1), 4, 32)
    IN  da_append_all(r, <<PKT3(PKT3_ACQUIRE_MEM, 5, 0),
                           cp_coher_cntl,
                           0..31,          \* 0xFFFFFFFF
                           Bits(255),      \* 0xFF
                           Bits(0), Bits(0), Bits(0)>>, oom)

\* void pkt3_release_mem(packets, va, fence_value); va is a uint64_t.
pkt3_release_mem(r, va, fence_value, oom) ==
    IF r.aborted THEN r
    ELSE
    LET event_cntl == Shl(Bits(5), 0, 32) \cup Shl(Bits(46), 8, 32)
        data_sel == Bits(1)
    IN  da_append_all(r, <<PKT3(PKT3_RELEASE_MEM, 6, 0),
                           event_cntl, data_sel,
                           U32(va \cap (0..31)), U32(Shr(va, 32)),
                           fence_value, Bits(0), Bits(0)>>, oom)

\* void build_compute_dispatch(packets, code_va, rsrc1, rsrc2, rsrc3,
\*     threads_x, threads_y, threads_z, groups_x, groups_y, groups_z);
\* rsrc, threads and groups are the triples of the arguments.
build_compute_dispatch(r, code_va, rsrc, threads, groups, oom) ==
    IF code_va \cap Bits(255) # {}
    THEN hdb_abort(r, "shader code address must be 256-byte aligned")
    ELSE
    LET pgm_lo == U32(Shr(code_va, 8))
        pgm_hi == U32(Shr(code_va, 40))
        dispatch_initiator == COMPUTE_DISPATCH_INITIATOR_COMPUTE_SHADER_EN
                              \cup COMPUTE_DISPATCH_INITIATOR_FORCE_START_AT_000
    IN  Then(pkt3_acquire_mem(r, oom), LAMBDA r0 :
        Then(pkt3_set_sh_reg(r0, R_00B830_COMPUTE_PGM_LO, pgm_lo, oom), LAMBDA r1 :
        Then(pkt3_set_sh_reg(r1, R_00B834_COMPUTE_PGM_HI, pgm_hi, oom), LAMBDA r2 :
        Then(pkt3_set_sh_reg(r2, R_00B848_COMPUTE_PGM_RSRC1, rsrc[1], oom), LAMBDA r3 :
        Then(pkt3_set_sh_reg(r3, R_00B84C_COMPUTE_PGM_RSRC2, rsrc[2], oom), LAMBDA r4 :
        Then(pkt3_set_sh_reg(r4, R_00B8A0_COMPUTE_PGM_RSRC3, rsrc[3], oom), LAMBDA r5 :
        Then(pkt3_set_sh_reg(r5, R_00B81C_COMPUTE_NUM_THREAD_X, threads[1], oom),
             LAMBDA r6 :
        Then(pkt3_set_sh_reg(r6, R_00B820_COMPUTE_NUM_THREAD_Y, threads[2], oom),
             LAMBDA r7 :
        Then(pkt3_set_sh_reg(r7, R_00B824_COMPUTE_NUM_THREAD_Z, threads[3], oom),
             LAMBDA r8 :
        pkt3_dispatch_direct(r8, groups[1], groups[2], groups[3],
                             dispatch_initiator, oom))))))))))

----------------------------------------------------------------------------
(* Device context (amdgpu_device.c) and Register Access Protocol (regs.c).  *)
(* The privileged register file (debugfs regs2) keeps the filter the last   *)
(* SET_STATE ioctl wrote, its file position and the registers written       *)
(* through it.  `f` names the driver call of the operation that fails       *)
(* (f.at, counted from 1; 0 for none) and what it returns (f.res).          *)

REG_OP_READ == 0
REG_OP_WRITE == 1

REG_MMIO == 0
REG_INDIRECT == 1

REG_SQ_SHADER_TBA_LO == 0
REG_SQ_SHADER_TBA_HI == 1
REG_SQ_SHADER_TMA_LO == 2
REG_SQ_SHADER_TMA_HI == 3
REG_SQ_CMD == 4
REG_MAX == 5

EINVAL == 22
EACCES == 13
EBADF == 9

\* File descriptors open() hands out: the lowest ones free after 0, 1 and 2.
DrmFd == 3
Regs2Fd == 4

\* The debugfs directories amdgpu_device_init tries: dri/0 .. dri/7.
REGS2_CARDS == 8

\* gc_11_regs_offsets: 0x2E00 .. 0x2E03 and 0x2D00.
gc_11_regs_offsets ==
    [r \in 0..(REG_MAX - 1) |-> <<11776, 11777, 11778, 11779, 11520>>[r + 1]]

gc_11_regs_infos ==
    [r \in 0..(REG_MAX - 1) |-> [soc_index |-> 0, type |-> REG_MMIO]]

\* The zero-initialised amdgpu_t ({0}) and the one amdgpu_device_init fills
\* when every step succeeds.
ZeroDev ==
    [drm_fd |-> 0, dev_handle |-> NULL, ctx_handle |-> NULL, regs2_fd |-> 0,
     gc_regs_base_addr |-> [i \in 0..15 |-> 0]]

ReadyDev ==
    [drm_fd |-> DrmFd, dev_handle |-> 1, ctx_handle |-> CtxHandle,
     regs2_fd |-> Regs2Fd, gc_regs_base_addr |-> [i \in 0..15 |-> 0]]

\* The zero-initialised regs2_ioc_data_t: no bank selected.
ZeroIoc ==
    [use_srbm |-> 0, use_grbm |-> 0, pg_lock |-> 0,
     grbm |-> [se |-> 0, sh |-> 0, instance |-> 0],
     srbm |-> [me |-> 0, pipe |-> 0, queue |-> 0, vmid |-> 0],
     xcc_id |-> {}]

\* open(path, O_RDWR): the lowest free descriptor, or -1 with errno set.
sys_open(c, path, forced) ==
    LET fd == CHOOSE n \in 3..(3 + Cardinality(c.drv.fds)) : n \notin c.drv.fds
    IN  IF forced # 0
        THEN [drv |-> c.drv,
              calls |-> Append(c.calls, [call |-> "open", arg |-> path,
                                         res |-> -1, errno |-> -forced]),
              res |-> -1, errno |-> -forced]
        ELSE [drv |-> [c.drv EXCEPT !.fds = @ \cup {fd}],
              calls |-> Append(c.calls, [call |-> "open", arg |-> path,
                                         res |-> fd, errno |-> 0]),
              res |-> fd, errno |-> 0]

\* fprintf(stderr, ...) after a system call left `errno`: when the write to
\* stderr fails (forced is its error number) errno is overwritten.
sys_fprintf(c, errno, forced) ==
    [drv |-> c.drv,
     calls |-> Append(c.calls,
                      [call |-> "fprintf", arg |-> "stderr",
                       res |-> IF forced # 0 THEN -1 ELSE 0,
                       errno |-> IF forced # 0 THEN forced ELSE errno]),
     errno |-> IF forced # 0 THEN forced ELSE errno]

\* close(fd)
sys_close(c, fd) ==
    [drv |-> [c.drv EXCEPT !.fds = @ \ {fd}], calls |-> Log(c, "close", fd, 0)]

\* amdgpu_device_initialize(drm_fd, &major, &minor, &dev_handle)
drm_device_initialize(c, fd, forced) ==
    IF forced # 0
    THEN [drv |-> c.drv, calls |-> Log(c, "amdgpu_device_initialize", fd, forced),
          res |-> forced, out |-> NULL]
    ELSE [drv |-> [c.drv EXCEPT !.devs = @ \cup {1}],
          calls |-> Log(c, "amdgpu_device_initialize", fd, 0),
          res |-> 0, out |-> 1]

\* amdgpu_device_deinitialize(dev_handle): the device's contexts go with it.
drm_device_deinitialize(c, h) ==
    [drv |-> [c.drv EXCEPT !.devs = @ \ {h}, !.ctxs = {}],
     calls |-> Log(c, "amdgpu_device_deinitialize", h, 0)]

\* amdgpu_query_gpu_info(dev_handle, &gpu_info)
drm_query_gpu_info(c, h, forced) ==
    [drv |-> c.drv, calls |-> Log(c, "amdgpu_query_gpu_info", h, forced),
     res |-> forced]

\* amdgpu_cs_ctx_create(dev_handle, &ctx_handle)
drm_cs_ctx_create(c, h, forced) ==
    IF forced # 0
    THEN [drv |-> c.drv, calls |-> Log(c, "amdgpu_cs_ctx_create", h, forced),
          res |-> forced, out |-> NULL]
    ELSE [drv |-> [c.drv EXCEPT !.ctxs = @ \cup {CtxHandle}],
          calls |-> Log(c, "amdgpu_cs_ctx_create", h, 0),
          res |-> 0, out |-> CtxHandle]

\* A null device_path.
NoPath == "NULL"

\* What amdgpu_device_init hands back: the return value and the caller's
\* device record.
DevResult(c, r, dv) ==
    [drv |-> c.drv, calls |-> c.calls, ret |-> r, dev |-> dv, aborted |-> FALSE]

\* amdgpu_device_init: the loop over /sys/kernel/debug/dri/<i>/regs2 from
\* directory i on; f.regs2 is the first directory whose file opens
\* (REGS2_CARDS when none does).  The result is regs2_fd.
\* Mutant: a register file that did not open is tried again in the same
\* directory.
RECURSIVE open_regs2_same_card(_, _, _)
open_regs2_same_card(c, i, f) ==
    IF i >= REGS2_CARDS
    THEN [drv |-> c.drv, calls |-> c.calls, res |-> -1]
    ELSE Then(sys_open(c, [file |-> "regs2", card |-> i \div 2],
                       IF i = f.regs2 THEN 0 ELSE -EACCES), LAMBDA o :
         IF o.res >= 0 THEN o ELSE open_regs2_same_card(o, i + 1, f))

RECURSIVE open_regs2(_, _, _)
open_regs2(c, i, f) ==
    IF i >= REGS2_CARDS
    THEN [drv |-> c.drv, calls |-> c.calls, res |-> -1]
    ELSE Then(sys_open(c, [file |-> "regs2", card |-> i],
                       IF i = f.regs2 THEN 0 ELSE -EACCES), LAMBDA o :
         IF o.res >= 0 THEN o ELSE open_regs2(o, i + 1, f))

\* Mutant: a register file that does not open makes the initialisation fail.
amdgpu_device_init_regs2_fatal(d, device_path, f, dev_in) ==
    Then(sys_open([drv |-> d, calls |-> <<>>],
                  [file |-> IF device_path = NoPath THEN "/dev/dri/card0"
                            ELSE device_path, card |-> 0],
                  f.open), LAMBDA o :
    IF o.res < 0
    THEN Then(sys_fprintf(o, o.errno, f.stderr), LAMBDA p :
         DevResult(p, -p.errno, dev_in))
    ELSE
    Then(drm_device_initialize(o, o.res, f.initialize), LAMBDA i1 :
    IF i1.res # 0 THEN DevResult(sys_close(i1, o.res), i1.res, dev_in)
    ELSE
    Then(drm_query_gpu_info(i1, i1.out, f.query), LAMBDA q :
    IF q.res # 0
    THEN DevResult(sys_close(drm_device_deinitialize(q, i1.out), o.res),
                   q.res, dev_in)
    ELSE
    Then(drm_cs_ctx_create(q, i1.out, f.ctx), LAMBDA x :
    IF x.res # 0
    THEN DevResult(sys_close(drm_device_deinitialize(x, i1.out), o.res),
                   x.res, dev_in)
    ELSE
    Then(open_regs2(x, 0, f), LAMBDA g :
    IF g.res < 0
    THEN DevResult(sys_close(drm_device_deinitialize(g, i1.out), o.res),
                   -EACCES, dev_in)
    ELSE
    DevResult(g, 0,
              [drm_fd |-> o.res, dev_handle |-> i1.out, ctx_handle |-> x.out,
               regs2_fd |-> g.res,
               gc_regs_base_addr |-> [k \in 0..15 |-> 0]]))))))

\* int32_t amdgpu_device_init(device_path, dev), called with the driver in
\* state d; dev_in is the caller's record, untouched on failure.
amdgpu_device_init(d, device_path, f, dev_in) ==
    Then(sys_open([drv |-> d, calls |-> <<>>],
                  [file |-> IF device_path = NoPath THEN "/dev/dri/card0"
                            ELSE device_path, card |-> 0],
                  f.open), LAMBDA o :
    IF o.res < 0
    THEN Then(sys_fprintf(o, o.errno, f.stderr), LAMBDA p :
         DevResult(p, -p.errno, dev_in))
    ELSE
    Then(drm_device_initialize(o, o.res, f.initialize), LAMBDA i1 :
    IF i1.res # 0 THEN DevResult(sys_close(i1, o.res), i1.res, dev_in)
    ELSE
    Then(drm_query_gpu_info(i1, i1.out, f.query), LAMBDA q :
    IF q.res # 0
    THEN DevResult(sys_close(drm_device_deinitialize(q, i1.out), o.res),
                   q.res, dev_in)
    ELSE
    Then(drm_cs_ctx_create(q, i1.out, f.ctx), LAMBDA x :
    IF x.res # 0
    THEN DevResult(sys_close(drm_device_deinitialize(x, i1.out), o.res),
                   x.res, dev_in)
    ELSE
    Then(open_regs2(x, 0, f), LAMBDA g :
    DevResult(g, 0,
              [drm_fd |-> o.res, dev_handle |-> i1.out, ctx_handle |-> x.out,
               regs2_fd |-> g.res,
               gc_regs_base_addr |-> [k \in 0..15 |-> 0]]))))))

\* The driver call about to be issued is the one f makes fail.
Hit(c, f) == f.at = Len(c.calls) + 1

\* ioctl(fd, AMDGPU_DEBUGFS_REGS2_IOC_SET_STATE_V2, &ioc_data): the file
\* takes the filter unless the call fails.
regs2_ioctl(c, fd, ioc_data, f) ==
    LET r == IF Hit(c, f) THEN f.res ELSE 0
    IN  [drv |-> IF r < 0 THEN c.drv ELSE [c.drv EXCEPT !.bank = ioc_data],
         calls |-> Log(c, "ioctl", ioc_data, r), res |-> r]

\* Mutant: the wrapper reports success whatever ioctl returned.
hdb_ioctl_quiet(c, fd, ioc_data, f) ==
    Then(regs2_ioctl(c, fd, ioc_data, f), LAMBDA u :
    [drv |-> u.drv, calls |-> u.calls, res |-> 0])

\* hdb_ioctl: -errno when ioctl returns a negative value, 0 otherwise.
hdb_ioctl(c, fd, ioc_data, f) ==
    Then(regs2_ioctl(c, fd, ioc_data, f), LAMBDA u :
    [drv |-> u.drv, calls |-> u.calls, res |-> IF u.res < 0 THEN -EINVAL ELSE 0])

\* lseek(fd, offset, SEEK_SET): the resulting position, or -1.
sys_lseek(c, fd, offset, f) ==
    LET r == IF Hit(c, f) THEN f.res ELSE offset
    IN  [drv |-> IF r < 0 THEN c.drv ELSE [c.drv EXCEPT !.pos = r],
         calls |-> Log(c, "lseek", offset, r), res |-> r]

\* The registers of the file, each keyed by the filter and the position it
\* was written under.
RegAt(d) == {g \in d.regs : g.bank = d.bank /\ g.off = d.pos}

\* read(fd, value, 4): the number of bytes read; *value is the register
\* when all four arrived.
sys_read(c, fd, value, f) ==
    LET r == IF Hit(c, f) THEN f.res ELSE 4
        word == IF RegAt(c.drv) = {} THEN {}
                ELSE (CHOOSE g \in RegAt(c.drv) : TRUE).word
    IN  [drv |-> c.drv, calls |-> Log(c, "read", c.drv.pos, r), res |-> r,
         out |-> IF r = 4 THEN [value EXCEPT !.word = word] ELSE value]

\* write(fd, value, 4): the number of bytes written; the register takes the
\* word when all four went through.
sys_write(c, fd, value, f) ==
    LET r == IF Hit(c, f) THEN f.res ELSE 4
        g == [bank |-> c.drv.bank, off |-> c.drv.pos, word |-> value.word]
    IN  [drv |-> IF r = 4
                 THEN [c.drv EXCEPT !.regs = (@ \ RegAt(c.drv)) \cup {g}]
                 ELSE c.drv,
         calls |-> Append(c.calls, [call |-> "write", arg |-> c.drv.pos,
                                    res |-> r, word |-> value.word,
                                    bank |-> c.drv.bank]),
         res |-> r, out |-> value]

\* What a register operation leaves: *value, and whether the process went
\* down in an HDB_ASSERT (logged with its message).
RegResult(c, value, dead) ==
    [drv |-> c.drv, calls |-> c.calls, value |-> value, aborted |-> dead]

reg_abort(c, value, msg) ==
    RegResult([drv |-> c.drv, calls |-> Log(c, "abort", msg, 0)], value, TRUE)

\* Mutant: the register's offset is used as a byte offset.
reg_total_offset_unscaled(dv, reg) ==
    gc_11_regs_offsets[reg] + dv.gc_regs_base_addr[gc_11_regs_infos[reg].soc_index]

\* dev_op_reg32: total_offset of the register.
reg_total_offset(dv, reg) ==
    LET reg_info == gc_11_regs_infos[reg]
        reg_offset == gc_11_regs_offsets[reg]
        base_offset == dv.gc_regs_base_addr[reg_info.soc_index]
        total_offset == reg_offset + base_offset
    IN  IF reg_info.type = REG_MMIO THEN total_offset * 4 ELSE total_offset

\* dev_op_reg32: "Perform read or write" and the check of the size.
reg_transfer(c, dv, opn, value, f) ==
    IF opn \notin {REG_OP_READ, REG_OP_WRITE}
    THEN reg_abort(c, value, "unsupported register operation")
    ELSE Then(IF opn = REG_OP_READ THEN sys_read(c, dv.regs2_fd, value, f)
              ELSE sys_write(c, dv.regs2_fd, value, f), LAMBDA t :
         IF t.res # 4 THEN reg_abort(t, t.out, "register read/write failed")
         ELSE RegResult(t, t.out, FALSE))

\* Mutant: a seek that failed is logged and the transfer goes on.
reg_seek_unchecked(c, dv, total_offset, opn, value, f) ==
    Then(sys_lseek(c, dv.regs2_fd, total_offset, f), LAMBDA s :
    reg_transfer(s, dv, opn, value, f))

\* dev_op_reg32: "Seek to register offset", then the transfer.
reg_seek(c, dv, total_offset, opn, value, f) ==
    Then(sys_lseek(c, dv.regs2_fd, total_offset, f), LAMBDA s :
    IF s.res # total_offset THEN reg_abort(s, value, "lseek failed")
    ELSE reg_transfer(s, dv, opn, value, f))

\* Mutant: the filter is written after the access instead of before it.
dev_op_reg32_filter_last(c, dv, reg, ioc_data, opn, value, f) ==
    IF dv.regs2_fd < 0 THEN reg_abort(c, value, "regs2_fd not open")
    ELSE IF ~(reg < REG_MAX) THEN reg_abort(c, value, "invalid register enum")
    ELSE IF value.addr = NULL THEN reg_abort(c, value, "value pointer is NULL")
    ELSE
    Then(reg_seek(c, dv, reg_total_offset(dv, reg), opn, value, f), LAMBDA r :
    IF r.aborted THEN r
    ELSE Then(hdb_ioctl(r, dv.regs2_fd, ioc_data, f), LAMBDA s :
         IF s.res # 0
         THEN reg_abort(s, r.value, "AMDGPU_DEBUGFS_REGS2_IOC_SET_STATE_V2 failed")
         ELSE RegResult(s, r.value, FALSE)))

\* void dev_op_reg32(dev, reg, ioc_data, op, value)
dev_op_reg32(c, dv, reg, ioc_data, opn, value, f) ==
    IF dv.regs2_fd < 0 THEN reg_abort(c, value, "regs2_fd not open")
    ELSE IF ~(reg < REG_MAX) THEN reg_abort(c, value, "invalid register enum")
    ELSE IF value.addr = NULL THEN reg_abort(c, value, "value pointer is NULL")
    ELSE
    Then(hdb_ioctl(c, dv.regs2_fd, ioc_data, f), LAMBDA s :
    IF s.res # 0
    THEN reg_abort(s, value, "AMDGPU_DEBUGFS_REGS2_IOC_SET_STATE_V2 failed")
    ELSE reg_seek(s, dv, reg_total_offset(dv, reg), opn, value, f))

\* dev_setup_trap_handler: the four register values.  tba_hi.raw is
\* (uint32_t)(tba >> 40); trap_en is bit 31 of the same word.
trap_values(tba, tma) ==
    [tma_lo |-> U32(tma),
     tma_hi |-> U32(Shr(tma, 32)),
     tba_lo |-> U32(Shr(tba, 8)),
     tba_hi |-> U32(Shr(tba, 40)) \cup {31}]

\* dev_setup_trap_handler: the filter for one VMID, all XCCs.
trap_ioc_data(vmid) ==
    [use_srbm |-> 1, use_grbm |-> 0, pg_lock |-> 0,
     grbm |-> [se |-> 0, sh |-> 0, instance |-> 0],
     srbm |-> [me |-> 0, pipe |-> 0, queue |-> 0, vmid |-> vmid],
     xcc_id |-> 0..31]

\* for_range(i, 1, 9)
TRAP_VMID_FIRST == 1
TRAP_VMID_END == 9

\* Mutant: the loop starts at the kernel's VMID 0.
trap_writes_from_zero(tba, tma) ==
    LET v == trap_values(tba, tma)
        n == TRAP_VMID_END - 1
    IN  [k \in 1..(4 * n) |->
            [vmid |-> ((k - 1) \div 4),
             reg |-> <<REG_SQ_SHADER_TBA_LO, REG_SQ_SHADER_TBA_HI,
                       REG_SQ_SHADER_TMA_LO, REG_SQ_SHADER_TMA_HI>>[((k - 1) % 4) + 1],
             word |-> <<v.tba_lo, v.tba_hi, v.tma_lo, v.tma_hi>>[((k - 1) % 4) + 1]]]

\* dev_setup_trap_handler: the dev_op_reg32 calls of the loop, in order.
trap_writes(tba, tma) ==
    LET v == trap_values(tba, tma)
        n == TRAP_VMID_END - TRAP_VMID_FIRST
    IN  [k \in 1..(4 * n) |->
            [vmid |-> TRAP_VMID_FIRST + ((k - 1) \div 4),
             reg |-> <<REG_SQ_SHADER_TBA_LO, REG_SQ_SHADER_TBA_HI,
                       REG_SQ_SHADER_TMA_LO, REG_SQ_SHADER_TMA_HI>>[((k - 1) % 4) + 1],
             word |-> <<v.tba_lo, v.tba_hi, v.tma_lo, v.tma_hi>>[((k - 1) % 4) + 1]]]

\* Mutant: when an access aborts, the registers written so far are restored.
RECURSIVE trap_write_all_rollback(_, _, _, _)
trap_write_all_rollback(c, dv, ws, f) ==
    IF ws = <<>> THEN RegResult(c, [addr |-> NULL, word |-> {}], FALSE)
    ELSE Then(dev_op_reg32(c, dv, Head(ws).reg, trap_ioc_data(Head(ws).vmid),
                           REG_OP_WRITE, [addr |-> 1, word |-> Head(ws).word], f),
              LAMBDA r :
         IF r.aborted THEN [r EXCEPT !.drv.regs = {}]
         ELSE trap_write_all_rollback(Ctx(r), dv, Tail(ws), f))

\* The calls ws, one after the other, until one of them aborts.
RECURSIVE trap_write_all(_, _, _, _)
trap_write_all(c, dv, ws, f) ==
    IF ws = <<>> THEN RegResult(c, [addr |-> NULL, word |-> {}], FALSE)
    ELSE Then(dev_op_reg32(c, dv, Head(ws).reg, trap_ioc_data(Head(ws).vmid),
                           REG_OP_WRITE, [addr |-> 1, word |-> Head(ws).word], f),
              LAMBDA r :
         IF r.aborted THEN r ELSE trap_write_all(Ctx(r), dv, Tail(ws), f))

\* void dev_setup_trap_handler(dev, tba, tma)
dev_setup_trap_handler(c, dv, tba, tma, f) ==
    IF tba \cap (0..7) # {}
    THEN reg_abort(c, [addr |-> NULL, word |-> {}], "TBA must be 256-byte aligned")
    ELSE trap_write_all(c, dv, trap_writes(tba, tma), f)

----------------------------------------------------------------------------
(* The caller of the Memory Region Manager: one region record, used through *)
(* bo_alloc, bo_upload and bo_free in any order.                            *)

\* The outcomes the driver has in store for one bo_alloc: at most one of the
\* five stages fails, and the unmap of the unwinding (issued only after a
\* failed CPU mapping) may fail as well.
NoFault ==
    [alloc |-> 0, export |-> 0, va_alloc |-> 0, map |-> 0, cpu_map |-> 0,
     unmap |-> 0, cpu_unmap |-> 0]

AllocFaults ==
    {NoFault}
    \cup {[NoFault EXCEPT ![k] = e] :
             k \in {"alloc", "export", "va_alloc", "map"}, e \in DriverErrs}
    \cup {[NoFault EXCEPT !.cpu_map = e, !.unmap = u] :
             e \in DriverErrs, u \in Outcomes}

\* The outcomes the driver has in store for one bo_free: the VA unmap fails
\* or not, and so does the CPU unmap.
FreeFaults ==
    {[unmap |-> u, cpu_unmap |-> 0] : u \in Outcomes}
    \cup {[unmap |-> u, cpu_unmap |-> -EINVAL] : u \in {0, -EINVAL}}

\* The driver before the process opened anything.
BootDrv ==
    [bos |-> {}, vas |-> {}, maps |-> {}, cpu |-> {}, lists |-> {},
     seq |-> 0, done |-> {}, hung |-> {},
     fds |-> {}, devs |-> {}, ctxs |-> {},
     bank |-> ZeroIoc, pos |-> 0, regs |-> {}]

\* The driver after amdgpu_device_init went through.
InitDrv ==
    [BootDrv EXCEPT !.fds = {DrmFd, Regs2Fd}, !.devs = {1}, !.ctxs = {CtxHandle}]

\* frees: bo_free calls since the last successful bo_alloc (capped at 2);
\* cpu: the region the record was last filled with was created with
\* AMDGPU_GEM_CREATE_CPU_ACCESS_REQUIRED.
InitHist ==
    [frees |-> 0, waited |-> FALSE, contract |-> TRUE, cpu |-> FALSE]

NoWait == [timeout |-> 0, left |-> 0]

\* The callers of the register operations on one device context, and the
\* state of a caller that has nothing to do.
Threads == {1, 2}

NoThreads ==
    [t \in Threads |->
        [job |-> [kind |-> "none"], k |-> 0, at |-> "done",
         value |-> [addr |-> NULL, word |-> {}], stray |-> FALSE]]

Init ==
    /\ pc = "idle"
    /\ drv = InitDrv
    /\ bo = ZeroBo
    /\ submit = ZeroSubmit
    /\ op = "init"
    /\ args = [none |-> TRUE]
    /\ calls = <<>>
    /\ ret = 0
    /\ hist = InitHist
    /\ wait = NoWait
    /\ pkts = ZeroPackets
    /\ dev = ReadyDev
    /\ thr = NoThreads

\* What a call leaves behind: the driver's state, the calls it issued, and
\* the abort of the process when an HDB_ASSERT fired.
Returned(name, r) ==
    /\ op' = name
    /\ drv' = r.drv
    /\ calls' = r.calls
    /\ pc' = IF r.aborted THEN "aborted" ELSE "idle"

\* The object behind record b was created with CPU access required.
CpuAccessRequired(d, b) ==
    \E o \in d.bos : o.h = b.bo_handle /\ "CPU_ACCESS_REQUIRED" \in o.flags

\* ret = bo_alloc(&dev, size, domain, uncached, &bo) on a record that holds
\* no live region; a failed allocation is not retried at once.
BoAlloc ==
    /\ pc = "idle"
    /\ bo.bo_handle = NULL
    /\ ~(op = "bo_alloc" /\ ret # 0)
    /\ \E size \in Sizes, domain \in Domains, uncached \in BOOLEAN,
          f \in AllocFaults :
          \E r \in {bo_alloc(drv, size, domain, uncached, f, bo)} :
              /\ Returned("bo_alloc", r)
              /\ args' = [size |-> size, domain |-> domain, uncached |-> uncached]
              /\ bo' = r.bo
              /\ ret' = r.ret
              /\ hist' = IF r.ret = 0
                         THEN [hist EXCEPT !.frees = 0,
                                           !.cpu = CpuAccessRequired(r.drv, r.bo)]
                         ELSE hist
    /\ UNCHANGED <<submit, wait, pkts, dev, thr>>

\* The CPU view of the region behind record b in driver state d (empty when
\* the region has no CPU mapping).
View(d, b) ==
    IF \E m \in d.cpu : m.h = b.bo_handle
    THEN (CHOOSE m \in d.cpu : m.h = b.bo_handle).mem
    ELSE <<>>

\* The caller's data blocks.
Blocks == {"a", "b"}

\* bo_upload(&bo, data, size)
BoUpload ==
    /\ pc = "idle"
    /\ \E size \in Sizes, data \in Blocks :
          \E r \in {bo_upload([drv |-> drv, calls |-> <<>>], bo, data, size)} :
              /\ Returned("bo_upload", r)
              /\ args' = [size |-> size, data |-> data, region |-> bo,
                           before |-> View(drv, bo)]
              /\ bo' = r.bo
    /\ UNCHANGED <<submit, ret, hist, wait, pkts, dev, thr>>

\* bo_free(&dev, &bo)
BoFree ==
    /\ pc = "idle"
    /\ \E f \in FreeFaults :
          \E r \in {bo_free([drv |-> drv, calls |-> <<>>], bo, f)} :
              /\ Returned("bo_free", r)
              /\ args' = [none |-> TRUE]
              /\ bo' = r.bo
    /\ hist' = [hist EXCEPT !.frees = IF @ < 2 THEN @ + 1 ELSE @]
    /\ UNCHANGED <<submit, ret, wait, pkts, dev, thr>>

Next == BoAlloc \/ BoUpload \/ BoFree

Spec == Init /\ [][Next]_vars

----------------------------------------------------------------------------
(* The caller of the Submission Engine: one submission record, used through *)
(* dev_submit, dev_wait and dev_submit_cleanup.  dev_wait blocks inside the *)
(* driver's fence query, so it is a call step and a return step with the    *)
(* driver's clock and the hardware running in between.                      *)

\* The caller's buffer arrays: every array of at most MaxBuffers handles of
\* regions the caller holds (the handle values 1 and 2).
BufferArrays == UNION {[1..n -> {1, 2}] : n \in 0..MaxBuffers}

NoSubmitFault ==
    [alloc |-> 0, export |-> 0, va_alloc |-> 0, map |-> 0, cpu_map |-> 0,
     unmap |-> 0, cpu_unmap |-> 0, malloc |-> FALSE, list |-> 0, submit |-> 0,
     hangs |-> FALSE]

\* The outcomes the driver has in store for one dev_submit: at most one step
\* fails; the unmap of the release that follows may fail as well.
SubmitFaults ==
    {[NoSubmitFault EXCEPT !.hangs = h] : h \in BOOLEAN}
    \cup {[NoSubmitFault EXCEPT ![k] = e] :
             k \in {"alloc", "export", "va_alloc", "map"}, e \in DriverErrs}
    \cup {[NoSubmitFault EXCEPT ![k] = e, !.unmap = u] :
             k \in {"cpu_map", "list", "submit"}, e \in DriverErrs, u \in Outcomes}
    \cup {[NoSubmitFault EXCEPT !.malloc = TRUE, !.unmap = u] : u \in Outcomes}

FenceDone == submit.fence.fence \in drv.done

\* ret = dev_submit(&dev, &packets, buffers, n, &submit) into a record that
\* holds no live submission; a failed submission is not retried at once.
DevSubmit ==
    /\ pc = "idle"
    /\ submit.ib.bo_handle = NULL /\ submit.bo_list = NULL
    /\ ~(op = "dev_submit" /\ ret # 0)
    /\ drv.seq < MaxSeq
    /\ \E count \in PacketCounts, buffers \in BufferArrays, f \in SubmitFaults :
          \E r \in {dev_submit(drv, [count |-> count], buffers, f, submit)} :
              /\ Returned("dev_submit", r)
              /\ args' = [count |-> count, buffers |-> buffers]
              /\ submit' = r.submit
              /\ ret' = r.ret
              /\ hist' = IF r.ret = 0 /\ ~r.aborted
                         THEN [hist EXCEPT !.waited = FALSE, !.contract = TRUE]
                         ELSE hist
    /\ UNCHANGED <<bo, wait, pkts, dev, thr>>

\* ret = dev_wait(&dev, &submit, timeout_ns) on a record dev_submit filled:
\* the query fails at once, or finds the fence signalled, or blocks.
DevWaitCall ==
    /\ pc = "idle"
    /\ submit.fence.context # NULL
    /\ \E timeout_ns \in 0..MaxTimeout, e \in Outcomes :
          /\ op' = "dev_wait"
          /\ args' = [timeout_ns |-> timeout_ns]
          /\ IF e # 0
             THEN /\ calls' = <<Call("amdgpu_cs_query_fence_status", 0, e)>>
                  /\ ret' = dev_wait(e, 0)
                  /\ pc' = "idle"
                  /\ wait' = NoWait
             ELSE IF FenceDone
             THEN /\ calls' = <<Call("amdgpu_cs_query_fence_status", 1, 0)>>
                  /\ ret' = dev_wait(0, 1)
                  /\ pc' = "idle"
                  /\ wait' = NoWait
             ELSE /\ calls' = <<>>
                  /\ ret' = ret
                  /\ pc' = "wait"
                  /\ wait' = [timeout |-> timeout_ns, left |-> timeout_ns]
          /\ hist' = [hist EXCEPT !.waited = @ \/ (pc' = "idle" /\ ret' = 0)]
    /\ UNCHANGED <<drv, bo, submit, pkts, dev, thr>>

\* The driver's clock: a finite timeout runs down while the query blocks.
WaitTick ==
    /\ pc = "wait"
    /\ wait.timeout > 0 /\ wait.left > 0
    /\ wait' = [wait EXCEPT !.left = @ - 1]
    /\ UNCHANGED <<pc, drv, bo, submit, op, args, calls, ret, hist, pkts, dev, thr>>

\* The hardware finishes a submission that is not hung: its fence signals.
GpuComplete ==
    /\ pc \in {"idle", "wait"}
    /\ \E s \in (1..drv.seq) \ (drv.done \cup drv.hung) :
          drv' = [drv EXCEPT !.done = @ \cup {s}]
    /\ UNCHANGED <<pc, bo, submit, op, args, calls, ret, hist, wait, pkts, dev, thr>>

\* The blocked query returns: the fence has signalled (expired = 1), or the
\* finite timeout has run out (expired = 0); dev_wait returns on it.
DevWaitReturn ==
    /\ pc = "wait"
    /\ FenceDone \/ (wait.timeout > 0 /\ wait.left = 0)
    /\ LET expired == IF FenceDone THEN 1 ELSE 0
       IN  /\ calls' = <<Call("amdgpu_cs_query_fence_status", expired, 0)>>
           /\ ret' = dev_wait(0, expired)
    /\ pc' = "idle"
    /\ wait' = NoWait
    /\ hist' = [hist EXCEPT !.waited = @ \/ ret' = 0]
    /\ UNCHANGED <<drv, bo, submit, op, args, pkts, dev, thr>>

\* dev_submit_cleanup(&dev, &submit); the caller contract asks for it only
\* after dev_wait returned success, the code does not check it.
DevSubmitCleanup ==
    /\ pc = "idle"
    /\ \E f \in FreeFaults :
          \E r \in {dev_submit_cleanup([drv |-> drv, calls |-> <<>>], submit, f)} :
              /\ Returned("dev_submit_cleanup", r)
              /\ args' = [none |-> TRUE]
              /\ submit' = r.submit
    /\ hist' = [hist EXCEPT !.contract = @ /\ hist.waited]
    /\ UNCHANGED <<bo, ret, wait, pkts, dev, thr>>

NextSubmit ==
    \/ DevSubmit
    \/ DevWaitCall
    \/ WaitTick
    \/ GpuComplete
    \/ DevWaitReturn
    \/ DevSubmitCleanup

SpecSubmit == Init /\ [][NextSubmit]_vars

\* The scheduling the blocking query rests on: the driver's clock advances
\* and a query that can return does return.
FairSubmit == SpecSubmit /\ WF_vars(WaitTick) /\ WF_vars(DevWaitReturn)

----------------------------------------------------------------------------
(* The caller of the Packet Encoder: one packet stream, grown through the   *)
(* builders in any order and emptied again by pkt3_init.                    *)

MaxWords == 7        \* a builder is called on a stream of at most this length

\* Register offsets handed to pkt3_set_sh_reg: the boundary values of the SH
\* window (0x2BFF, 0x2C00, 0x2FFF, 0x3000) and one inside it (0x2C04), and the
\* register address 0xB848.
RegOffsets == {11263, 11264, 11268, 12287, 12288, R_00B848_COMPUTE_PGM_RSRC1}

\* uint32_t arguments: 0, 7 and 0xFFFFFFFF.
Values == {Bits(0), Bits(7), 0..31}

\* Workgroup and thread counts (x, y, z).
Dims == {<<Bits(1), Bits(2), Bits(3)>>, <<Bits(64), Bits(1), Bits(1)>>}

\* uint64_t addresses: 0, 0x100, 0x101, 0x8001_0000_0100 (bits 8, 16, 47),
\* 0x1_0000_0000_1000 (bits 12, 48) and 0x12_3400 with bit 40.
Addresses == {{}, {8}, {0, 8}, {8, 16, 47}, {12, 48}, {10, 13, 40}}

\* Scratch addresses: 0 and 0x8000_0001_0000_1004.
TmaAddresses == {{}, {2, 12, 32, 63}}

\* A builder returned, or the process went down in an HDB_ASSERT.
PktReturned(name, a, r) ==
    /\ op' = name
    /\ args' = a
    /\ pkts' = r.packets
    /\ calls' = r.calls
    /\ pc' = IF r.aborted THEN "aborted" ELSE "idle"
    /\ UNCHANGED <<drv, bo, submit, ret, hist, wait, dev, thr>>

PktStart == PktResult(pkts, <<>>, FALSE)

\* pkt3_init(&packets)
PktInit ==
    /\ pc = "idle"
    /\ pkts.count > 0
    /\ PktReturned("pkt3_init", [none |-> TRUE],
                   PktResult(pkt3_init(pkts), <<>>, FALSE))

\* pkt3_set_sh_reg(&packets, reg, value)
PktSetShReg ==
    /\ pc = "idle"
    /\ pkts.count <= MaxWords
    /\ \E reg \in RegOffsets, value \in Values, oom \in BOOLEAN :
          \E r \in {pkt3_set_sh_reg(PktStart, reg, value, oom)} :
              PktReturned("pkt3_set_sh_reg",
                          [reg |-> reg, value |-> value, before |-> pkts], r)

\* pkt3_dispatch_direct(&packets, dim_x, dim_y, dim_z, dispatch_initiator)
PktDispatchDirect ==
    /\ pc = "idle"
    /\ pkts.count <= MaxWords
    /\ \E dim \in Dims, oom \in BOOLEAN :
          \E r \in {pkt3_dispatch_direct(PktStart, dim[1], dim[2], dim[3],
                                         Bits(3), oom)} :
              PktReturned("pkt3_dispatch_direct",
                          [dim |-> dim, before |-> pkts], r)

\* pkt3_acquire_mem(&packets)
PktAcquireMem ==
    /\ pc = "idle"
    /\ pkts.count <= MaxWords
    /\ \E oom \in BOOLEAN :
          \E r \in {pkt3_acquire_mem(PktStart, oom)} :
              PktReturned("pkt3_acquire_mem", [before |-> pkts], r)

\* pkt3_release_mem(&packets, va, fence_value)
PktReleaseMem ==
    /\ pc = "idle"
    /\ pkts.count <= MaxWords
    /\ \E va \in Addresses, oom \in BOOLEAN :
          \E r \in {pkt3_release_mem(PktStart, va, Bits(1), oom)} :
              PktReturned("pkt3_release_mem", [va |-> va, before |-> pkts], r)

\* build_compute_dispatch(&packets, code_va, rsrc1, rsrc2, rsrc3, threads_x,
\*                        threads_y, threads_z, groups_x, groups_y, groups_z)
PktBuildComputeDispatch ==
    /\ pc = "idle"
    /\ pkts.count <= MaxWords
    /\ \E code_va \in Addresses, dim \in Dims, oom \in BOOLEAN :
          \E r \in {build_compute_dispatch(PktStart, code_va,
                                           <<Bits(0), Bits(7), Bits(0)>>,
                                           dim, dim, oom)} :
              PktReturned("build_compute_dispatch",
                          [code_va |-> code_va, dim |-> dim, before |-> pkts], r)

NextPkt ==
    \/ PktInit
    \/ PktSetShReg
    \/ PktDispatchDirect
    \/ PktAcquireMem
    \/ PktReleaseMem
    \/ PktBuildComputeDispatch

SpecPkt == Init /\ [][NextPkt]_vars

\* A caller that appends single dwords: long enough streams to outgrow the
\* first buffer twice. The dword may change every RunLen appends.
MaxAppends == 130
RunLen == 32

\* da_append(&packets, value)
DaAppendStep ==
    /\ pc = "idle"
    /\ pkts.count < MaxAppends
    /\ \E value \in Values, oom \in BOOLEAN :
          /\ pkts.count % RunLen # 0 => value = pkts.data[pkts.count]
          /\ \E r \in {da_append(PktStart, value, oom)} :
                PktReturned("da_append", [value |-> value, before |-> pkts], r)

NextAppend ==
    \/ PktInit
    \/ DaAppendStep

SpecAppend == Init /\ [][NextAppend]_vars

\* The header macro on its own: PKT3(op, count, predicate) for opcodes of
\* eight bits, counts of fourteen bits and a predicate of one bit.
Opcodes == {0, 16, 21, 64, 73, 88, 118, 255}
Counts == {0, 1, 3, 5, 6, 255, 256, 16383}

Pkt3Header ==
    /\ pc = "idle"
    /\ \E opcode \in Opcodes, count \in Counts, predicate \in {0, 1} :
          /\ op' = "PKT3"
          /\ args' = [op |-> opcode, count |-> count, predicate |-> predicate]
          /\ ret' = PKT3(opcode, count, predicate)
    /\ UNCHANGED <<pc, drv, bo, submit, calls, hist, wait, pkts, dev, thr>>

NextHeader == Pkt3Header

SpecHeader == Init /\ [][NextHeader]_vars

----------------------------------------------------------------------------
(* The caller of the Register Access Protocol: single register accesses and *)
(* the installation of the trap handler, on a device context whose register *)
(* file is open or absent.                                                  *)

MaxRegs == 2         \* registers written one by one through dev_op_reg32

\* Base-offset tables (gc_regs_base_addr): all blocks at 0 as
\* amdgpu_device_init leaves them, and block 0 at 0x1260 or 0xA000 with the
\* other blocks at 0x40.
RegBases ==
    {[i \in 0..15 |-> 0]}
    \cup {[i \in 0..15 |-> IF i = 0 THEN b ELSE 64] : b \in {4704, 40960}}

\* Filters handed to dev_op_reg32: none, and VMID 3 on all XCCs.
Filters == {ZeroIoc, trap_ioc_data(3)}

\* The outcomes the register file has in store for an operation of up to n
\* driver calls: none fails, or call k returns -1, 0 or 2.
NoRegFault == [at |-> 0, res |-> 0]

RegFaults(n) == {NoRegFault} \cup {[at |-> k, res |-> r] : k \in 1..n, r \in {-1, 0, 2}}

\* For the trap handler: filter write or seek k fails, or write k is short.
TrapSteps == 3 * 4 * (TRAP_VMID_END - TRAP_VMID_FIRST)

TrapFaults ==
    {NoRegFault}
    \cup {[at |-> k, res |-> IF k % 3 = 0 THEN 2 ELSE -1] : k \in 1..TrapSteps}

\* Arguments of dev_op_reg32: well-formed ones with any outcome of the
\* register file, and each ill-formed one (register out of the enumeration,
\* null value pointer, operation that is neither read nor write).
RegCalls ==
    {[reg |-> reg, ioc_data |-> ioc, rop |-> opn,
      value |-> [addr |-> 1, word |-> Bits(7)], f |-> f] :
        reg \in {REG_SQ_SHADER_TBA_HI, REG_SQ_CMD}, ioc \in Filters,
        opn \in {REG_OP_READ, REG_OP_WRITE}, f \in RegFaults(3)}
    \cup {[reg |-> reg, ioc_data |-> trap_ioc_data(3), rop |-> opn,
           value |-> [addr |-> addr, word |-> {}], f |-> f] :
             reg \in {REG_SQ_CMD, REG_MAX}, opn \in {REG_OP_WRITE, 2},
             addr \in {NULL, 1}, f \in {NoRegFault, [at |-> 2, res |-> -1]}}

InitRegs ==
    /\ pc = "idle"
    /\ bo = ZeroBo
    /\ submit = ZeroSubmit
    /\ op = "init"
    /\ args = [none |-> TRUE]
    /\ calls = <<>>
    /\ ret = 0
    /\ hist = InitHist
    /\ wait = NoWait
    /\ pkts = ZeroPackets
    /\ \E fd \in {Regs2Fd, -1}, base \in RegBases :
          /\ dev = [ReadyDev EXCEPT !.regs2_fd = fd, !.gc_regs_base_addr = base]
          /\ drv = [InitDrv EXCEPT !.fds = {DrmFd} \cup ({fd} \ {-1})]
    /\ thr = NoThreads

\* dev_op_reg32(&dev, reg, ioc_data, op, &value)
DevOpReg32 ==
    /\ pc = "idle"
    /\ Cardinality(drv.regs) < MaxRegs
    /\ \E a \in RegCalls :
          \E r \in {dev_op_reg32([drv |-> drv, calls |-> <<>>], dev, a.reg,
                                 a.ioc_data, a.rop, a.value, a.f)} :
              /\ Returned("dev_op_reg32", r)
              /\ args' = [reg |-> a.reg, ioc_data |-> a.ioc_data, rop |-> a.rop,
                          value |-> a.value]
              /\ ret' = r.value
    /\ UNCHANGED <<bo, submit, hist, wait, pkts, dev, thr>>

\* dev_setup_trap_handler(&dev, tba, tma), on a register file nothing was
\* written to.
DevSetupTrapHandler ==
    /\ pc = "idle"
    /\ drv.regs = {}
    /\ \E tba \in Addresses, tma \in TmaAddresses, f \in TrapFaults :
          \E r \in {dev_setup_trap_handler([drv |-> drv, calls |-> <<>>], dev,
                                           tba, tma, f)} :
              /\ Returned("dev_setup_trap_handler", r)
              /\ args' = [tba |-> tba, tma |-> tma]
    /\ UNCHANGED <<bo, submit, ret, hist, wait, pkts, dev, thr>>

NextRegs == DevOpReg32 \/ DevSetupTrapHandler

SpecRegs == InitRegs /\ [][NextRegs]_vars

\* A caller that holds a device context and a packet stream and stays with
\* one of the two: the Register Access Protocol or the Packet Encoder.
RegOps == {"dev_op_reg32", "dev_setup_trap_handler"}

PktOps == {"pkt3_init", "pkt3_set_sh_reg", "pkt3_dispatch_direct",
           "pkt3_acquire_mem", "pkt3_release_mem", "build_compute_dispatch"}

NextCaller ==
    \/ op \in {"init"} \cup RegOps /\ NextRegs
    \/ op \in {"init"} \cup PktOps /\ NextPkt

SpecCaller == InitRegs /\ [][NextCaller]_vars

----------------------------------------------------------------------------
(* The caller of the whole library: amdgpu_device_init first, then one of   *)
(* the subsystems (regions, submissions, registers) on the context it got.  *)

NoInitFault ==
    [open |-> 0, initialize |-> 0, query |-> 0, ctx |-> 0, regs2 |-> 0,
     stderr |-> 0]

\* The outcomes the system has in store for amdgpu_device_init: the register
\* file opens in dri/0, in dri/1 or nowhere, and at most one of the other
\* steps fails; when the device does not open, the process may be one whose
\* stderr is closed.
InitFaults ==
    {[NoInitFault EXCEPT !.regs2 = g] : g \in {0, 1, REGS2_CARDS}}
    \cup {[NoInitFault EXCEPT ![k] = e, !.regs2 = g] :
             k \in {"open", "initialize", "query", "ctx"}, e \in DriverErrs,
             g \in {0, REGS2_CARDS}}
    \cup {[NoInitFault EXCEPT !.open = e, !.stderr = EBADF] : e \in DriverErrs}

InitDevice ==
    /\ pc = "idle"
    /\ drv = BootDrv
    /\ bo = ZeroBo
    /\ submit = ZeroSubmit
    /\ op = "init"
    /\ args = [none |-> TRUE]
    /\ calls = <<>>
    /\ ret = 0
    /\ hist = InitHist
    /\ wait = NoWait
    /\ pkts = ZeroPackets
    /\ dev = ZeroDev
    /\ thr = NoThreads

\* ret = amdgpu_device_init(device_path, &dev), once, on a zeroed record.
AmdgpuDeviceInit ==
    /\ pc = "idle"
    /\ op = "init"
    /\ \E device_path \in {NoPath, "/dev/dri/card1"}, f \in InitFaults :
          \E r \in {amdgpu_device_init(drv, device_path, f, dev)} :
              /\ Returned("amdgpu_device_init", r)
              /\ args' = [device_path |-> device_path]
              /\ ret' = r.ret
              /\ dev' = r.dev
    /\ UNCHANGED <<bo, submit, hist, wait, pkts, thr>>

\* The context is initialised and the caller goes on with the subsystem of
\* the operations ops.
Using(ops) ==
    /\ dev.dev_handle # NULL
    /\ op \in {"amdgpu_device_init"} \cup ops

NextDevice ==
    \/ AmdgpuDeviceInit
    \/ Using({"bo_alloc", "bo_upload", "bo_free"}) /\ Next
    \/ Using({"dev_submit", "dev_wait", "dev_submit_cleanup"}) /\ NextSubmit
    \/ Using({"dev_op_reg32", "dev_setup_trap_handler"}) /\ NextRegs

SpecDevice == InitDevice /\ [][NextDevice]_vars

----------------------------------------------------------------------------
(* Two callers on one device context.  dev_op_reg32 holds nothing between   *)
(* its three system calls, and the filter and the position belong to the    *)
(* open file both callers use, so each system call is a step of its own and *)
(* the steps of the two callers interleave.  Every system call succeeds     *)
(* here; their failures are the subject of SpecRegs.                        *)

\* What a caller has to do: nothing, one dev_op_reg32 call, or
\* dev_setup_trap_handler(tba, tma).
Job(kind, reg, ioc_data, opn, word, tba, tma) ==
    [kind |-> kind, reg |-> reg, ioc_data |-> ioc_data, rop |-> opn,
     word |-> word, tba |-> tba, tma |-> tma]

RegJob(reg, ioc_data, opn, word) == Job("reg", reg, ioc_data, opn, word, {}, {})

TrapJob(tba, tma) == Job("trap", 0, ZeroIoc, REG_OP_WRITE, {}, tba, tma)

\* The dev_op_reg32 calls of a job, in order.
Work(job) ==
    IF job.kind = "reg"
    THEN <<[reg |-> job.reg, ioc_data |-> job.ioc_data, rop |-> job.rop,
            value |-> [addr |-> 1, word |-> job.word]]>>
    ELSE IF job.kind = "trap"
    THEN Then(trap_writes(job.tba, job.tma), LAMBDA ws :
         [k \in 1..Len(ws) |->
             [reg |-> ws[k].reg, ioc_data |-> trap_ioc_data(ws[k].vmid),
              rop |-> REG_OP_WRITE, value |-> [addr |-> 1, word |-> ws[k].word]]])
    ELSE <<>>

\* The first caller writes one trap register of VMID 3 or installs the
\* handler at 0x100; the second reads or writes SQ_CMD with no bank selected
\* or installs the handler at 0x8000_0001_0100 with a scratch address.
\* Against an installation by the first caller the second installs as well.
Jobs1 ==
    {RegJob(REG_SQ_SHADER_TBA_HI, trap_ioc_data(3), REG_OP_WRITE, Bits(7)),
     TrapJob({8}, {})}

Jobs2 ==
    {RegJob(REG_SQ_CMD, ZeroIoc, opn, 0..31) : opn \in {REG_OP_READ, REG_OP_WRITE}}
    \cup {TrapJob({8, 16, 47}, {2, 12, 32, 63})}

InitRace ==
    /\ pc = "idle"
    /\ drv = InitDrv
    /\ bo = ZeroBo
    /\ submit = ZeroSubmit
    /\ op = "init"
    /\ args = [none |-> TRUE]
    /\ calls = <<>>
    /\ ret = 0
    /\ hist = InitHist
    /\ wait = NoWait
    /\ pkts = ZeroPackets
    /\ dev = ReadyDev
    /\ \E j1 \in Jobs1, j2 \in Jobs2 :
          /\ j1.kind = "trap" => j2.kind = "trap"
          /\ thr = [t \in Threads |->
                       [job |-> IF t = 1 THEN j1 ELSE j2, k |-> 0, at |-> "filter",
                        value |-> [addr |-> 1, word |-> {}], stray |-> FALSE]]

\* The caller whose steps are followed one by one: the first, and the second
\* while it makes a single call.  An installation by the second caller runs
\* as a whole between two steps of the first.
Stepwise(t) == t = 1 \/ thr[t].job.kind = "reg"

\* The dev_op_reg32 call the caller is in.
Current(t) == Work(thr[t].job)[thr[t].k + 1]

\* dev_op_reg32 up to and including the filter write; the alignment check of
\* dev_setup_trap_handler comes before its first call.
reg32_filter(c, dv, job, k, a) ==
    IF job.kind = "trap" /\ k = 0 /\ job.tba \cap (0..7) # {}
    THEN reg_abort(c, a.value, "TBA must be 256-byte aligned")
    ELSE IF dv.regs2_fd < 0 THEN reg_abort(c, a.value, "regs2_fd not open")
    ELSE IF ~(a.reg < REG_MAX) THEN reg_abort(c, a.value, "invalid register enum")
    ELSE IF a.value.addr = NULL THEN reg_abort(c, a.value, "value pointer is NULL")
    ELSE
    Then(hdb_ioctl(c, dv.regs2_fd, a.ioc_data, NoRegFault), LAMBDA s :
    IF s.res # 0
    THEN reg_abort(s, a.value, "AMDGPU_DEBUGFS_REGS2_IOC_SET_STATE_V2 failed")
    ELSE RegResult(s, a.value, FALSE))

\* dev_op_reg32: the seek and the check of the position lseek returned.
reg32_seek(c, dv, a) ==
    Then(sys_lseek(c, dv.regs2_fd, reg_total_offset(dv, a.reg), NoRegFault),
         LAMBDA s :
    IF s.res # reg_total_offset(dv, a.reg) THEN reg_abort(s, a.value, "lseek failed")
    ELSE RegResult(s, a.value, FALSE))

\* Mutant: before the access the call makes sure that the file is still at
\* the offset it sought.
reg32_transfer_position_checked(c, dv, a) ==
    IF c.drv.pos # reg_total_offset(dv, a.reg)
    THEN reg_abort(c, a.value, "lseek failed")
    ELSE reg_transfer(c, dv, a.rop, a.value, NoRegFault)

\* dev_op_reg32: the 4-byte access and the check of its size.
reg32_transfer(c, dv, a) == reg_transfer(c, dv, a.rop, a.value, NoRegFault)

\* What a step of caller t leaves behind.
Stepped(t, r, next) ==
    /\ op' = IF thr[t].job.kind = "trap" THEN "dev_setup_trap_handler"
             ELSE "dev_op_reg32"
    /\ args' = [thread |-> t]
    /\ drv' = r.drv
    /\ calls' = r.calls
    /\ pc' = IF r.aborted THEN "aborted" ELSE "idle"
    /\ thr' = IF r.aborted THEN thr ELSE [thr EXCEPT ![t] = next]

RegFilterStep(t) ==
    /\ pc = "idle" /\ Stepwise(t)
    /\ thr[t].at = "filter"
    /\ \E r \in {reg32_filter([drv |-> drv, calls |-> <<>>], dev, thr[t].job,
                              thr[t].k, Current(t))} :
          Stepped(t, r, [thr[t] EXCEPT !.at = "seek"])
    /\ UNCHANGED <<bo, submit, ret, hist, wait, pkts, dev>>

RegSeekStep(t) ==
    /\ pc = "idle" /\ Stepwise(t)
    /\ thr[t].at = "seek"
    /\ \E r \in {reg32_seek([drv |-> drv, calls |-> <<>>], dev, Current(t))} :
          Stepped(t, r, [thr[t] EXCEPT !.at = "transfer"])
    /\ UNCHANGED <<bo, submit, ret, hist, wait, pkts, dev>>

\* The access goes where the file's filter and position point; stray records
\* that they are not the ones this call wrote.
RegTransferStep(t) ==
    /\ pc = "idle" /\ Stepwise(t)
    /\ thr[t].at = "transfer"
    /\ \E r \in {reg32_transfer([drv |-> drv, calls |-> <<>>], dev, Current(t))} :
          Stepped(t, r,
                  [thr[t] EXCEPT
                      !.k = @ + 1,
                      !.at = IF thr[t].k + 1 = Len(Work(thr[t].job))
                             THEN "done" ELSE "filter",
                      !.value = r.value,
                      !.stray = @ \/ drv.bank # Current(t).ioc_data
                                  \/ drv.pos # reg_total_offset(dev, Current(t).reg)])
    /\ UNCHANGED <<bo, submit, ret, hist, wait, pkts, dev>>

\* dev_setup_trap_handler(&dev, tba, tma) of the second caller, from its
\* first call to its last.
TrapInstallWhole(t) ==
    /\ pc = "idle" /\ ~Stepwise(t)
    /\ thr[t].at = "filter" /\ thr[t].k = 0
    /\ \E r \in {dev_setup_trap_handler([drv |-> drv, calls |-> <<>>], dev,
                                        thr[t].job.tba, thr[t].job.tma, NoRegFault)} :
          Stepped(t, r, [thr[t] EXCEPT !.k = Len(Work(thr[t].job)), !.at = "done"])
    /\ UNCHANGED <<bo, submit, ret, hist, wait, pkts, dev>>

NextRace ==
    \/ \E t \in Threads : RegFilterStep(t)
    \/ \E t \in Threads : RegSeekStep(t)
    \/ \E t \in Threads : RegTransferStep(t)
    \/ \E t \in Threads : TrapInstallWhole(t)

SpecRace == InitRace /\ [][NextRace]_vars

----------------------------------------------------------------------------
(* Properties of the Memory Region Manager, checked under Spec.             *)

CallNames(cs) == [i \in 1..Len(cs) |-> cs[i].call]

\* A driver call that failed: a non-zero result, or malloc returning NULL.
Failed(e) == e.res # 0 \/ (e.call = "malloc" /\ e.arg = NULL)

\* The error the failing call stands for (malloc has no errno: -ENOMEM).
ErrOf(e) == IF e.call = "malloc" THEN -ENOMEM ELSE e.res

IsFirstFailure(cs, i) == Failed(cs[i]) /\ \A j \in 1..(i - 1) : ~Failed(cs[j])

\* Every resource a call before position i acquired is released by a call
\* after position i: the mapping unmapped, the VA range freed after that,
\* the allocation handle freed last.
UnwoundAfter(cs, i) ==
    \A j \in 1..(i - 1) :
        /\ cs[j].call = "amdgpu_bo_alloc" =>
              \E k \in (i + 1)..Len(cs) :
                  cs[k].call = "amdgpu_bo_free" /\ cs[k].arg = cs[j].arg
        /\ cs[j].call = "amdgpu_va_range_alloc" =>
              \E k \in (i + 1)..Len(cs) :
                  /\ cs[k].call = "amdgpu_va_range_free" /\ cs[k].arg = cs[j].arg
                  /\ \E m \in (k + 1)..Len(cs) : cs[m].call = "amdgpu_bo_free"
        /\ cs[j].call = "AMDGPU_VA_OP_MAP" =>
              \E k \in (i + 1)..Len(cs) :
                  /\ cs[k].call = "AMDGPU_VA_OP_UNMAP" /\ cs[k].arg = cs[j].arg
                  /\ \E m \in (k + 1)..Len(cs) : cs[m].call = "amdgpu_va_range_free"

NothingLive ==
    /\ drv.bos = {} /\ drv.vas = {} /\ drv.maps = {} /\ drv.cpu = {}
    /\ drv.lists = {}

BoFreeOrder(b) ==
    (IF b.host_addr # NULL THEN <<"amdgpu_bo_cpu_unmap">> ELSE <<>>)
    \o <<"AMDGPU_VA_OP_UNMAP", "amdgpu_va_range_free", "amdgpu_bo_free">>

\* C2: bo_free on a live region issues its teardown calls in exactly this
\* order: CPU unmap (only when a CPU pointer is present), VA-unmap, VA-range
\* release, allocation-handle release.
C2_FreeOrder ==
    [][(BoFree /\ bo.bo_handle # NULL) => CallNames(calls') = BoFreeOrder(bo)]_vars

\* A CPU-visible region was released with all four calls.
C2_Witness ==
    /\ op = "bo_free"
    /\ Len(calls) = 4
    /\ calls[1].call = "amdgpu_bo_cpu_unmap"

\* C4: a second bo_free on a region record that bo_alloc filled and bo_free
\* released issues no driver call and changes no field of the record.
C4_SecondFreeNoOp ==
    [][(BoFree /\ bo.bo_handle = NULL) =>
          (calls' = <<>> /\ bo' = bo /\ drv' = drv /\ pc' = "idle")]_vars

\* bo_free ran twice on a record that held an allocated region.
C4_Witness ==
    /\ op = "bo_free" /\ hist.frees = 2
    /\ bo.va_addr # 0 /\ bo.bo_handle = NULL
    /\ calls = <<>>

UnmapFailedAt(i) ==
    calls[i].call = "AMDGPU_VA_OP_UNMAP" /\ calls[i].res # 0

\* C5: when the VA-unmap inside bo_free fails, bo_free still releases the VA
\* range and then the allocation handle, ends with both handles of the
\* record cleared, and returns normally.
C5_FreeSurvivesUnmapFailure ==
    (op = "bo_free" /\ \E i \in 1..Len(calls) : UnmapFailedAt(i)) =>
        /\ \E i \in 1..Len(calls) :
              /\ UnmapFailedAt(i)
              /\ Len(calls) = i + 2
              /\ calls[i + 1].call = "amdgpu_va_range_free"
              /\ calls[i + 2].call = "amdgpu_bo_free"
        /\ bo.va_handle = NULL /\ bo.bo_handle = NULL
        /\ drv.vas = {} /\ drv.bos = {}
        /\ pc = "idle"

C5_Witness ==
    /\ op = "bo_free"
    /\ \E i \in 1..Len(calls) : UnmapFailedAt(i)
    /\ bo.bo_handle = NULL

\* C6: after bo_free on a live region all handle fields of the record are
\* cleared: allocation handle, VA-range handle, KMS handle and CPU pointer.
C6_AllHandlesCleared ==
    (op = "bo_free" /\ calls # <<>>) =>
        /\ bo.bo_handle = NULL
        /\ bo.va_handle = NULL
        /\ bo.kms_handle = 0
        /\ bo.host_addr = NULL

----------------------------------------------------------------------------
(* Properties of the Submission Engine, checked under SpecSubmit.           *)

\* The record came from a successful dev_submit and its IB is released.
IbReleased == submit.fence.context # NULL /\ submit.ib.bo_handle = NULL

\* C3 as stated: the IB region of a submission record is never released
\* unless a dev_wait on the record has returned success.
C3_ReleasedOnlyAfterWait == IbReleased => hist.waited

\* C3, amended: dev_submit_cleanup checks nothing; when the caller keeps the
\* contract (cleanup only after dev_wait returned success) the IB region is
\* released only once the fence of the record has completed.
C3_ReleasedOnlyAfterFence == (IbReleased /\ hist.contract) => FenceDone

C3_Witness ==
    /\ op = "dev_submit_cleanup"
    /\ IbReleased /\ hist.contract
    /\ Len(calls) = 5

FenceHung == submit.fence.fence \in drv.hung

\* C8: dev_wait with timeout_ns = 0 on a fence that is already complete
\* returns success without blocking; on a fence that never completes,
\* dev_wait with a finite timeout eventually returns, with the timeout code.
C8_WaitTerminates ==
    /\ [][(DevWaitCall /\ FenceDone /\ args'.timeout_ns = 0
              /\ (calls' # <<>> => calls'[1].res = 0))
          => (pc' = "idle" /\ ret' = 0)]_vars
    /\ (pc = "wait" /\ wait.timeout > 0 /\ FenceHung)
          ~> (pc = "idle" /\ op = "dev_wait" /\ ret = -ETIMEDOUT)

\* A finite wait on a hung submission has returned with the timeout code.
C8_Witness ==
    /\ op = "dev_wait" /\ pc = "idle"
    /\ FenceHung /\ args.timeout_ns > 0
    /\ ret = -ETIMEDOUT

SubmitSteps ==
    {"amdgpu_bo_alloc", "amdgpu_bo_export", "amdgpu_va_range_alloc",
     "AMDGPU_VA_OP_MAP", "amdgpu_bo_cpu_map", "malloc",
     "amdgpu_bo_list_create", "amdgpu_cs_submit"}

\* The IB was allocated (bo_alloc ran to its memset) before position i, and
\* the calls end with its release through bo_free.
IbReleasedThroughBoFree(cs, i) ==
    (\E j \in 1..(i - 1) : cs[j].call = "memset") =>
        /\ Len(cs) >= i + 4
        /\ SubSeq(CallNames(cs), Len(cs) - 3, Len(cs)) =
              <<"amdgpu_bo_cpu_unmap", "AMDGPU_VA_OP_UNMAP",
                "amdgpu_va_range_free", "amdgpu_bo_free">>
        /\ cs[Len(cs)].arg = cs[1].arg

\* A buffer list created before position i is destroyed after it.
ListDestroyedAfter(cs, i) ==
    \A j \in 1..(i - 1) :
        (cs[j].call = "amdgpu_bo_list_create" /\ cs[j].res = 0) =>
            \E k \in (i + 1)..Len(cs) :
                cs[k].call = "amdgpu_bo_list_destroy" /\ cs[k].arg = cs[j].arg

\* C9: when dev_submit fails at any step, the IB region has been released
\* through bo_free if it had been allocated, the buffer list destroyed if it
\* had been created, the value returned is the inner error of the failing
\* step, and no IB region or buffer list of the call stays live.
C9_SubmitFailureUnwinds ==
    (op = "dev_submit" /\ ret # 0) =>
        /\ \E i \in 1..Len(calls) :
              /\ IsFirstFailure(calls, i)
              /\ calls[i].call \in SubmitSteps
              /\ ret = ErrOf(calls[i])
              /\ UnwoundAfter(calls, i)
              /\ IbReleasedThroughBoFree(calls, i)
              /\ ListDestroyedAfter(calls, i)
        /\ NothingLive
        /\ pc = "idle"

\* The submission call itself failed, with IB and buffer list in place.
C9_Witness ==
    /\ op = "dev_submit" /\ ret # 0
    /\ \E i \in 1..Len(calls) :
          calls[i].call = "amdgpu_cs_submit" /\ calls[i].res # 0

\* C10: for a buffer array of length n the buffer list dev_submit creates has
\* n+1 entries: the IB region's allocation handle first, then the caller's
\* buffers in the caller's order.
C10_BufferListOrder ==
    op = "dev_submit" =>
        \A i \in 1..Len(calls) :
            (calls[i].call = "amdgpu_bo_list_create" /\ calls[i].res = 0) =>
                LET h == calls[i].handles
                    n == Len(args.buffers)
                IN  /\ Len(h) = n + 1
                    /\ h[1] = calls[1].arg
                    /\ \A k \in 1..n : h[k + 1] = args.buffers[k]

\* A successful submission with two different caller buffers.
C10_Witness ==
    /\ op = "dev_submit" /\ ret = 0
    /\ Len(args.buffers) = 2
    /\ args.buffers[1] # args.buffers[2]
    /\ submit.ib.bo_handle = calls[1].arg

\* The positions of the submission calls among the calls of the operation.
CsSubmits == {i \in 1..Len(calls) : calls[i].call = "amdgpu_cs_submit"}

\* C11: a successful dev_submit issues exactly one submission: compute
\* engine, instance 0, ring 0, no dependencies, one indirect-buffer
\* descriptor with the IB region's virtual address and the stream's length in
\* dwords; the fence of the record carries the sequence number it returned.
C11_SubmitRequest ==
    (op = "dev_submit" /\ ret = 0 /\ pc # "aborted") =>
        /\ Cardinality(CsSubmits) = 1
        /\ \A i \in CsSubmits :
              LET req == calls[i].req
              IN  /\ calls[i].res = 0
                  /\ calls[i].ctx = CtxHandle
                  /\ req.ip_type = AMDGPU_HW_IP_COMPUTE
                  /\ req.ip_instance = 0 /\ req.ring = 0
                  /\ req.number_of_dependencies = 0
                  /\ req.number_of_ibs = 1 /\ Len(req.ibs) = 1
                  /\ req.ibs[1].ib_mc_address = submit.ib.va_addr
                  /\ req.ibs[1].ib_mc_address = VaOf(calls[3].arg)
                  /\ req.ibs[1].size = args.count
                  /\ req.resources = submit.bo_list
                  /\ submit.fence.fence = calls[i].arg
                  /\ submit.fence.context = CtxHandle
                  /\ submit.fence.ip_type = AMDGPU_HW_IP_COMPUTE
                  /\ submit.fence.ip_instance = 0 /\ submit.fence.ring = 0

\* A stream of three dwords (twelve bytes) was submitted.
C11_Witness ==
    /\ op = "dev_submit" /\ ret = 0 /\ pc = "idle"
    /\ args.count = 3
    /\ CsSubmits # {}
    /\ submit.fence.fence = 1

\* The calls dev_submit_cleanup has to issue on the record sub.
CleanupOrder(sub) ==
    (IF sub.bo_list # NULL THEN <<"amdgpu_bo_list_destroy">> ELSE <<>>)
    \o (IF sub.ib.bo_handle # NULL THEN BoFreeOrder(sub.ib) ELSE <<>>)

\* C12: dev_submit_cleanup destroys the buffer list (when present) before it
\* releases the IB region, and releases the IB region through bo_free: CPU
\* unmap, VA-unmap, VA-range release, allocation release.
C12_CleanupOrder ==
    [][DevSubmitCleanup =>
          /\ CallNames(calls') = CleanupOrder(submit)
          /\ (submit.bo_list # NULL =>
                  /\ calls'[1].arg = submit.bo_list
                  /\ calls'[Len(calls')].arg = submit.ib.bo_handle)]_vars

\* A record with a buffer list and a CPU-mapped IB was cleaned up.
C12_Witness ==
    /\ op = "dev_submit_cleanup"
    /\ CallNames(calls) =
          <<"amdgpu_bo_list_destroy", "amdgpu_bo_cpu_unmap", "AMDGPU_VA_OP_UNMAP",
            "amdgpu_va_range_free", "amdgpu_bo_free">>

----------------------------------------------------------------------------
(* Properties of the Packet Encoder, checked under SpecHeader and SpecPkt.  *)

\* The fields of a header as a reader of the format takes them: opcode in
\* bits [15:8], count in bits [13:0], predicate in bit 31.
HdrOpcode(h) == Val(Shr(h \cap (8..15), 8))
HdrCount(h) == Val(h \cap (0..13))
HdrPredicate(h) == IF 31 \in h THEN 1 ELSE 0

\* C13: decoding the header PKT3(o, c, p) as opcode = bits [15:8], count =
\* bits [13:0], predicate = bit 31 recovers o, c and p exactly.
C13_HeaderRoundTrip ==
    op = "PKT3" =>
        /\ HdrOpcode(ret) = args.op
        /\ HdrCount(ret) = args.count
        /\ HdrPredicate(ret) = args.predicate

\* The stream pkt3_acquire_mem builds from the empty stream.
AcquireOnly == pkt3_acquire_mem(PktResult(ZeroPackets, <<>>, FALSE), FALSE).packets

\* The words the last builder call appended.
Appended == SubSeq(pkts.data, args.before.count + 1, pkts.count)

\* C14: from an empty stream pkt3_acquire_mem appends exactly 6 words, and a
\* following pkt3_set_sh_reg to offset 0xB848 succeeds and appends exactly 3
\* words: header, (0xB848 - 0x2C00) / 4, value.
C14_AcquireThenRegWrite ==
    /\ (op = "pkt3_acquire_mem" /\ pc = "idle" /\ args.before.count = 0) =>
          pkts.count = 6
    /\ (op = "pkt3_set_sh_reg" /\ args.reg = 47176
           /\ args.before = AcquireOnly) =>
          /\ pc = "idle"
          /\ Appended = <<PKT3(PKT3_SET_SH_REG, 1, 0),
                          Bits((47176 - 11264) \div 4), args.value>>

\* An HDB_ASSERT with the message msg ended the last operation.
AbortedWith(msg) ==
    /\ pc = "aborted"
    /\ \E i \in 1..Len(calls) : calls[i].call = "abort" /\ calls[i].arg = msg

RECURSIVE WholePackets(_, _)
WholePackets(data, i) ==
    IF i = Len(data) + 1 THEN TRUE
    ELSE IF i > Len(data) THEN FALSE
    ELSE WholePackets(data, i + 1 + HdrCount(data[i]))

Builders ==
    {"pkt3_set_sh_reg", "pkt3_dispatch_direct", "pkt3_acquire_mem",
     "pkt3_release_mem"}

\* C16: after any sequence of builder calls the stream is a whole number of
\* packets: the count field (bits [13:0]) of each builder's header is the
\* number of dwords the builder appends after the header, so that skipping
\* count words after a header lands on the next header or on the end.
C16_WholePackets ==
    pc = "idle" =>
        /\ WholePackets(pkts.data, 1)
        /\ op \in Builders =>
              HdrCount(Appended[1]) = Len(Appended) - 1

\* The opcodes of the packets of ws, each packet taken with the length its
\* builder gives it.
PacketLen(opcode) ==
    CASE opcode = PKT3_SET_SH_REG -> 3
      [] opcode = PKT3_DISPATCH_DIRECT -> 5
      [] opcode = PKT3_ACQUIRE_MEM -> 7
      [] opcode = PKT3_RELEASE_MEM -> 8
      [] OTHER -> 1

RECURSIVE PacketOpcodes(_)
PacketOpcodes(ws) ==
    IF ws = <<>> THEN <<>>
    ELSE LET o == HdrOpcode(ws[1])
         IN  <<o>> \o PacketOpcodes(SubSeq(ws, PacketLen(o) + 1, Len(ws)))

\* C17: for every 256-byte-aligned code address build_compute_dispatch
\* returns without fault and appends one acquire-barrier packet, six
\* register-write packets and one dispatch packet, in this order.
C17_DispatchComposition ==
    (op = "build_compute_dispatch" /\ args.code_va \cap (0..7) = {}) =>
        /\ pc = "idle"
        /\ PacketOpcodes(Appended) =
              <<PKT3_ACQUIRE_MEM>>
              \o [i \in 1..6 |-> PKT3_SET_SH_REG]
              \o <<PKT3_DISPATCH_DIRECT>>

\* C18: build_compute_dispatch faults for every code address whose low 8
\* bits are nonzero; for an aligned address A it emits the values low and
\* high for the program-address registers with (low << 8) | (high << 40) = A
\* and high within bits [7:0].
C18_AddressSplit ==
    op = "build_compute_dispatch" =>
        IF args.code_va \cap (0..7) # {}
        THEN AbortedWith("shader code address must be 256-byte aligned")
        ELSE \E i, j \in 1..Len(Appended) :
                /\ i > 1 /\ j > 1
                /\ Appended[i - 1] = Bits((R_00B830_COMPUTE_PGM_LO - 11264) \div 4)
                /\ Appended[j - 1] = Bits((R_00B834_COMPUTE_PGM_HI - 11264) \div 4)
                /\ Shl(Appended[i], 8, 64) \cup Shl(Appended[j], 40, 64)
                      = args.code_va
                /\ Appended[j] \subseteq (0..7)

----------------------------------------------------------------------------
(* Sizes and domains of the Memory Region Manager, checked under Spec.      *)

SpecialDomains ==
    {AMDGPU_GEM_DOMAIN_GWS, AMDGPU_GEM_DOMAIN_GDS, AMDGPU_GEM_DOMAIN_OA}

\* C19: for every requested size s and every normal domain a successful
\* bo_alloc returns a region whose size is a multiple of the page size, is
\* at least s and is less than a page above s, also for s = 0 and for s
\* within one page of SIZE_MAX.
C19_SizeRoundedUp ==
    (op = "bo_alloc" /\ ret = 0 /\ args.domain \notin SpecialDomains) =>
        /\ bo.size % 4096 = 0
        /\ ULe(args.size, bo.size)
        /\ bo.size - args.size \in 0..4095

\* The live object the driver holds for the caller's region record.
DrvBo == {b \in drv.bos : b.h = bo.bo_handle}

----------------------------------------------------------------------------
(* The region record across bo_alloc, bo_upload and bo_free, under Spec.    *)

\* C21: in every state of a region record reachable through bo_alloc,
\* bo_upload and bo_free the VA-range handle is non-null iff the virtual
\* address is set, and the CPU pointer is non-null iff CPU access was
\* requested when the region was created.
C21_RecordInvariant ==
    /\ (bo.va_handle # NULL) <=> (bo.va_addr # 0)
    /\ (bo.host_addr # NULL) <=> hist.cpu

\* C22: for every CPU-visible region and every data block of size
\* n <= region.size, after bo_upload the first n bytes behind the CPU pointer
\* are the uploaded bytes and the bytes from n to region.size are unchanged;
\* right after a successful bo_alloc all bytes of the region are zero.
C22_UploadRoundTrip ==
    /\ (op = "bo_alloc" /\ ret = 0 /\ bo.host_addr # NULL) =>
           /\ DOMAIN View(drv, bo) = CellsIn(bo.size)
           /\ \A e \in CellsIn(bo.size) : View(drv, bo)[e] = "zero"
    /\ (op = "bo_upload" /\ pc = "idle") =>
           /\ bo.host_addr # NULL /\ ULe(args.size, bo.size)
           /\ DOMAIN View(drv, bo) = CellsIn(bo.size)
           /\ \A e \in CellsIn(bo.size) :
                 View(drv, bo)[e] = IF e \in CellsIn(args.size) THEN args.data
                                    ELSE args.before[e]

\* Sixteen bytes of block "a" were written over the start of a region that
\* held block "b" on more than a page, and the rest of "b" is still there.
C22_Witness ==
    /\ op = "bo_upload" /\ pc = "idle"
    /\ args.size = 16 /\ args.data = "a"
    /\ bo.size = 8192
    /\ \E m \in drv.cpu :
          /\ m.h = bo.bo_handle
          /\ m.mem[16] = "a" /\ m.mem[4096] = "b" /\ m.mem[4097] = "b"
          /\ m.mem[8192] = "zero"

----------------------------------------------------------------------------
(* Properties of the Register Access Protocol, checked under SpecRegs.      *)

\* The filter write at position i went through, and so did the seek at i.
FilterWritten(i) == calls[i].call = "ioctl" /\ calls[i].res >= 0

SeekDone(i) == calls[i].call = "lseek" /\ calls[i].res = calls[i].arg

IsTransfer(i) == calls[i].call \in {"read", "write"}

\* C24: every dev_op_reg32 call writes the execution-context filter to the
\* register file, seeks to the register's offset and then does exactly one
\* 4-byte read or write, in this order; a read or write is never issued
\* unless the filter write and the seek of the same call both succeeded
\* right before it.
C24_AccessOrder ==
    /\ op \in RegOps =>
           \A i \in 1..Len(calls) :
               IsTransfer(i) =>
                   /\ i >= 3
                   /\ FilterWritten(i - 2)
                   /\ SeekDone(i - 1)
    /\ op = "dev_op_reg32" =>
           /\ \A i \in 1..Len(calls) :
                  /\ calls[i].call = "ioctl" => i = 1 /\ calls[i].arg = args.ioc_data
                  /\ calls[i].call = "lseek" => i = 2
                  /\ IsTransfer(i) =>
                         /\ i = 3
                         /\ calls[i].call =
                                IF args.rop = REG_OP_READ THEN "read" ELSE "write"
                         /\ calls[i].arg = calls[2].arg
           /\ pc = "idle" =>
                  /\ Len(calls) = 3
                  /\ IsTransfer(3) /\ calls[3].res = 4

\* A register was written through dev_op_reg32 under the filter of VMID 3.
C24_Witness ==
    /\ op = "dev_op_reg32" /\ pc = "idle"
    /\ args.rop = REG_OP_WRITE
    /\ CallNames(calls) = <<"ioctl", "lseek", "write">>
    /\ drv.bank = trap_ioc_data(3)
    /\ drv.regs # {}

\* The byte offset of register reg under the device's base-offset table.
ByteOffset(reg) ==
    LET dwords == dev.gc_regs_base_addr[gc_11_regs_infos[reg].soc_index]
                  + gc_11_regs_offsets[reg]
    IN  IF gc_11_regs_infos[reg].type = REG_MMIO THEN dwords * 4 ELSE dwords

\* C25: for every register of the enumeration and every base-offset table
\* the byte offset dev_op_reg32 seeks to is (base offset of the register's
\* block + the register's fixed offset) * 4 when the register is
\* memory-mapped, and the unmultiplied sum otherwise.
C25_SeekOffset ==
    /\ op = "dev_op_reg32" =>
           \A i \in 1..Len(calls) :
               calls[i].call = "lseek" => calls[i].arg = ByteOffset(args.reg)
    /\ op = "dev_setup_trap_handler" =>
           \A i \in 1..Len(calls) :
               calls[i].call = "lseek" =>
                   calls[i].arg = ByteOffset(((i - 2) \div 3) % 4)

\* SQ_CMD (0x2D00) was read with block 0 based at 0x1260: the seek went to
\* (0x1260 + 0x2D00) * 4 = 0xFD80.
C25_Witness ==
    /\ op = "dev_op_reg32" /\ pc = "idle"
    /\ args.reg = REG_SQ_CMD
    /\ dev.gc_regs_base_addr[0] = 4704
    /\ calls[2].call = "lseek" /\ calls[2].arg = 64896 /\ calls[2].res = 64896
    /\ drv.pos = 64896

\* The driver call at position i did not do what dev_op_reg32 asked for:
\* the filter write failed, the seek did not reach the offset, or the
\* transfer moved other than 4 bytes.
RegStepFailed(i) ==
    \/ calls[i].call = "ioctl" /\ calls[i].res < 0
    \/ calls[i].call = "lseek" /\ calls[i].res # calls[i].arg
    \/ IsTransfer(i) /\ calls[i].res # 4

\* C26: in dev_op_reg32 a failed filter write, a failed seek and a read or
\* write of other than 4 bytes each abort the process: the failing step is
\* the last driver call of the access and the function does not return.
C26_FailedStepAborts ==
    op \in RegOps =>
        /\ \A i \in 1..Len(calls) :
               RegStepFailed(i) =>
                   /\ pc = "aborted"
                   /\ Len(calls) = i + 1
                   /\ calls[i + 1].call = "abort"
        /\ (pc = "idle" /\ op = "dev_op_reg32") =>
               /\ FilterWritten(1) /\ SeekDone(2) /\ calls[3].res = 4

\* The seek of a register read failed after the filter was written: no read
\* followed.
C26_Witness ==
    /\ op = "dev_op_reg32" /\ pc = "aborted"
    /\ args.rop = REG_OP_READ
    /\ Len(calls) = 3
    /\ FilterWritten(1)
    /\ calls[2].call = "lseek" /\ calls[2].res = -1
    /\ calls[3].call = "abort" /\ calls[3].arg = "lseek failed"

----------------------------------------------------------------------------
(* Error classes across the library, checked under SpecDevice.              *)

ValueOps == {"bo_alloc", "dev_submit", "dev_wait", "amdgpu_device_init"}

\* A step amdgpu_device_init cannot do without failed (the register file is
\* optional).
InitStepFailed(e) ==
    \/ e.call = "open" /\ e.arg.file # "regs2" /\ e.res < 0
    \/ e.call \in {"amdgpu_device_initialize", "amdgpu_query_gpu_info",
                   "amdgpu_cs_ctx_create"} /\ e.res # 0

\* The operation met an operational failure: one of the driver calls it
\* needs failed, or the fence did not signal in time.
OperationalFailure ==
    CASE op \in RegOps -> \E i \in 1..Len(calls) : RegStepFailed(i)
      [] op = "amdgpu_device_init" -> \E i \in 1..Len(calls) : InitStepFailed(calls[i])
      [] op = "dev_wait" -> \E i \in 1..Len(calls) : calls[i].res # 0 \/ calls[i].arg = 0
      [] OTHER -> \E i \in 1..Len(calls) : Failed(calls[i])

\* The error value that stands for the first failure of the operation.
InnerCause ==
    CASE op = "amdgpu_device_init" ->
             LET i == CHOOSE j \in 1..Len(calls) :
                          /\ InitStepFailed(calls[j])
                          /\ \A k \in 1..(j - 1) : ~InitStepFailed(calls[k])
             IN  IF calls[i].call = "open" THEN -calls[i].errno ELSE calls[i].res
      [] op = "dev_wait" ->
             IF calls[1].res # 0 THEN calls[1].res ELSE -ETIMEDOUT
      [] OTHER ->
             ErrOf(calls[CHOOSE j \in 1..Len(calls) : IsFirstFailure(calls, j)])

\* amdgpu_device_init printed its messages about the device that did not
\* open to a stderr that does not take them, and errno was overwritten
\* before it was returned.
ErrnoOverwritten ==
    /\ op = "amdgpu_device_init"
    /\ \E i \in 1..Len(calls) : calls[i].call = "fprintf" /\ calls[i].res < 0

\* The error value the operation returns for its first failure.
ReturnedCause ==
    IF ErrnoOverwritten THEN -calls[Len(calls)].errno ELSE InnerCause

RegPreconditions ==
    {"regs2_fd not open", "invalid register enum", "value pointer is NULL",
     "unsupported register operation", "TBA must be 256-byte aligned"}

----------------------------------------------------------------------------
(* Installation of the trap handler, checked under SpecRegs.                *)

TrapRegisters ==
    <<REG_SQ_SHADER_TBA_LO, REG_SQ_SHADER_TBA_HI,
      REG_SQ_SHADER_TMA_LO, REG_SQ_SHADER_TMA_HI>>

\* C28: a completed dev_setup_trap_handler has written the four trap
\* registers (handler low, handler high, scratch low, scratch high, in this
\* order) for each execution-context identifier 1, 2, ..., 8 in ascending
\* order, 32 register writes in all, each under a filter that selects all
\* dies and carries the identifier; no access is issued with identifier 0
\* or an identifier above 8.
C28_TrapInstallation ==
    op = "dev_setup_trap_handler" =>
        /\ \A i \in 1..Len(calls) :
               calls[i].call = "ioctl" =>
                   /\ calls[i].arg.srbm.vmid \in 1..8
                   /\ calls[i].arg.use_srbm = 1
                   /\ calls[i].arg.xcc_id = 0..31
        /\ pc = "idle" =>
               /\ Len(calls) = 3 * 32
               /\ \A n \in 1..32 :
                      LET vmid == ((n - 1) \div 4) + 1
                          reg == TrapRegisters[((n - 1) % 4) + 1]
                      IN  /\ FilterWritten(3 * n - 2)
                          /\ calls[3 * n - 2].arg.srbm.vmid = vmid
                          /\ SeekDone(3 * n - 1)
                          /\ calls[3 * n - 1].arg = ByteOffset(reg)
                          /\ calls[3 * n].call = "write" /\ calls[3 * n].res = 4
                          /\ calls[3 * n].bank = calls[3 * n - 2].arg
                          /\ \E g \in drv.regs :
                                 /\ g.bank.srbm.vmid = vmid
                                 /\ g.off = ByteOffset(reg)
                                 /\ g.word = calls[3 * n].word
               /\ Cardinality(drv.regs) = 32
               /\ \A g \in drv.regs : g.bank.srbm.vmid \in 1..8

\* The handler at 0x8000_0001_0100 was installed for all eight identifiers.
C28_Witness ==
    /\ op = "dev_setup_trap_handler" /\ pc = "idle"
    /\ args.tba = {8, 16, 47}
    /\ Len(calls) = 96
    /\ calls[94].arg.srbm.vmid = 8
    /\ Cardinality(drv.regs) = 32

\* Bits [hi:lo] of the address a, moved down to bit 0.
Field(a, hi, lo) == {b - lo : b \in {x \in a : lo <= x /\ x <= hi}}

\* C29: for every 256-byte-aligned handler address tba and every scratch
\* address tma, dev_setup_trap_handler writes handler-low = tba bits [39:8],
\* handler-high = tba bits [47:40] in its low 8 bits with the trap-enable
\* bit 31 set and every other bit 0, scratch-low = tma bits [31:0] and
\* scratch-high = tma bits [63:32].
C29_TrapValues ==
    (op = "dev_setup_trap_handler" /\ args.tba \cap (0..7) = {}) =>
        \A n \in 1..32 :
            (3 * n <= Len(calls) /\ calls[3 * n].call = "write") =>
                calls[3 * n].word =
                    CASE (n - 1) % 4 = 0 -> Field(args.tba, 39, 8)
                      [] (n - 1) % 4 = 1 -> Field(args.tba, 47, 40) \cup {31}
                      [] (n - 1) % 4 = 2 -> Field(args.tma, 31, 0)
                      [] (n - 1) % 4 = 3 -> Field(args.tma, 63, 32)

----------------------------------------------------------------------------
(* A context without the privileged register file, checked under SpecDevice.*)

\* The context is initialised and its register file is marked absent.
Regs2Absent == dev.dev_handle # NULL /\ dev.regs2_fd < 0

\* C30: when no privileged register file can be opened amdgpu_device_init
\* still succeeds and marks the register file absent in the context it
\* returns; on that context bo_alloc, bo_upload, bo_free, dev_submit and
\* dev_wait work as they do with the file, while every dev_op_reg32 and
\* dev_setup_trap_handler call is refused by a precondition fault (the
\* open-file one unless the handler address is misaligned) without any
\* access to a register file.
C30_RegisterFileOptional ==
    /\ (op = "amdgpu_device_init" /\ ~OperationalFailure) =>
           /\ ret = 0 /\ pc = "idle"
           /\ dev.dev_handle # NULL /\ dev.ctx_handle # NULL /\ dev.drm_fd \in drv.fds
           /\ IF \E i \in 1..Len(calls) :
                     calls[i].call = "open" /\ calls[i].arg.file = "regs2"
                     /\ calls[i].res >= 0
              THEN dev.regs2_fd = calls[Len(calls)].res /\ dev.regs2_fd \in drv.fds
              ELSE /\ dev.regs2_fd = -1
                   /\ Len(calls) = 4 + REGS2_CARDS
                   /\ \A i \in 5..Len(calls) :
                          calls[i].call = "open" /\ calls[i].arg.card = i - 5
    /\ (Regs2Absent /\ op \in RegOps) =>
           /\ pc = "aborted"
           /\ Len(calls) = 1 /\ calls[1].call = "abort"
           /\ calls[1].arg =
                  IF op = "dev_setup_trap_handler" /\ args.tba \cap (0..7) # {}
                  THEN "TBA must be 256-byte aligned" ELSE "regs2_fd not open"
           /\ drv.regs = {} /\ drv.bank = ZeroIoc /\ drv.pos = 0
    /\ (Regs2Absent /\ pc # "wait" /\ op \in ValueOps \ {"amdgpu_device_init"}) =>
           /\ pc = "idle"
           /\ ret = IF OperationalFailure THEN InnerCause ELSE 0
    /\ (Regs2Absent /\ op = "bo_alloc" /\ ret = 0) =>
           /\ bo.bo_handle \in LiveBos(drv) /\ bo.va_handle \in drv.vas
    /\ (Regs2Absent /\ op = "bo_upload") =>
           (pc = "idle") = (bo.host_addr # NULL /\ ULe(args.size, bo.size))
    /\ (Regs2Absent /\ op = "bo_free") =>
           /\ pc = "idle" /\ bo.bo_handle = NULL /\ drv.bos = {} /\ drv.vas = {}
    /\ (Regs2Absent /\ op = "dev_submit" /\ ret = 0) =>
           /\ submit.ib.bo_handle \in LiveBos(drv)
           /\ submit.fence.fence = drv.seq

\* amdgpu_device_init found no register file in dri/0 .. dri/7 and returned
\* 0; dev_op_reg32 on the context it filled was refused.
C30_Witness ==
    /\ op = "dev_op_reg32" /\ pc = "aborted"
    /\ dev.regs2_fd = -1 /\ dev.ctx_handle = CtxHandle
    /\ args.reg = REG_SQ_CMD /\ args.value.addr # NULL
    /\ drv.fds = {DrmFd}
    /\ calls = <<Call("abort", "regs2_fd not open", 0)>>

----------------------------------------------------------------------------
(* Failed driver calls across the library, checked under SpecDevice.        *)

\* The driver call e did not do what the operation asked of it.
CallFailed(e) ==
    CASE e.call = "open" -> e.res < 0
      [] e.call = "ioctl" -> e.res < 0
      [] e.call = "lseek" -> e.res # e.arg
      [] e.call \in {"read", "write"} -> e.res # 4
      [] e.call = "malloc" -> e.arg = NULL
      [] e.call \in {"abort", "memset", "memcpy", "free", "close", "fprintf"} -> FALSE
      [] OTHER -> e.res # 0

\* The operation told its caller that it failed: a non-zero return value,
\* or the abort of the process.
FailureReported == pc = "aborted" \/ (op \in ValueOps /\ ret # 0)

IsBestEffort(e) ==
    \/ e.call \in {"AMDGPU_VA_OP_UNMAP", "amdgpu_bo_cpu_unmap"}
    \/ e.call = "open" /\ e.arg.file = "regs2"

\* The calls that give a resource back.
ReleaseCalls ==
    {"amdgpu_bo_cpu_unmap", "AMDGPU_VA_OP_UNMAP", "amdgpu_va_range_free",
     "amdgpu_bo_free", "amdgpu_bo_list_destroy", "free", "close",
     "amdgpu_device_deinitialize"}

\* The same call with the same arguments.
SameCall(e1, e2) == e1.call = e2.call /\ e1.arg = e2.arg

----------------------------------------------------------------------------
(* Two callers of the register operations, checked under SpecRace.          *)

Finished(t) == thr[t].at = "done"

Started(t) == thr[t].k > 0 \/ thr[t].at # "filter"

Other(t) == CHOOSE u \in Threads : u # t

\* The register reg of execution context vmid, as the file holds it.
TrapReg(vmid, reg) ==
    {g \in drv.regs : g.bank = trap_ioc_data(vmid)
                       /\ g.off = reg_total_offset(dev, reg)}

\* The word an installation job writes to the trap register reg.
JobWord(job, reg) ==
    LET v == trap_values(job.tba, job.tma)
    IN  <<v.tba_lo, v.tba_hi, v.tma_lo, v.tma_hi>>[reg + 1]

\* Execution context vmid holds a trap register of the first caller's
\* installation and one of the second's.
Mixed(vmid) ==
    \E r1, r2 \in REG_SQ_SHADER_TBA_LO..REG_SQ_SHADER_TMA_HI :
        /\ \E g \in TrapReg(vmid, r1) : g.word = JobWord(thr[1].job, r1)
        /\ \E g \in TrapReg(vmid, r2) : g.word = JobWord(thr[2].job, r2)

\* The dev_op_reg32 calls of the two callers.
AllCalls ==
    UNION {Then(Work(thr[t].job), LAMBDA w : {w[i] : i \in 1..Len(w)}) :
              t \in Threads}

\* C32: dev_op_reg32 performs no locking.  With two callers on one device
\* context the system calls of their dev_op_reg32 calls (filter write, seek,
\* 4-byte access) interleave, and none of the checks of dev_op_reg32 fires
\* however they do: every call runs to its end.  An access goes under a
\* filter or to a position its own call did not set only once the other
\* caller has issued a step, and what the register file then holds is some
\* caller's word under some caller's filter at some caller's offset.
C32_NoLocking ==
    /\ pc = "idle"
    /\ \A t \in Threads : thr[t].stray => Started(Other(t))
    /\ \E asked \in {AllCalls} :
           \A g \in drv.regs :
               /\ \E a \in asked : g.bank = a.ioc_data
               /\ \E a \in asked : g.off = reg_total_offset(dev, a.reg)
               /\ \E a \in asked : g.word = a.value.word

\* Two installations ran to their end.  A write of the first went under the
\* filter and to the position the second had left in the file, and execution
\* context 2 ended with one trap register of the second caller among three
\* of the first.
C32_Witness ==
    /\ pc = "idle"
    /\ \A t \in Threads : Finished(t) /\ thr[t].job.kind = "trap"
    /\ thr[1].stray /\ ~thr[2].stray
    /\ Mixed(2)
    /\ \E g \in TrapReg(2, REG_SQ_SHADER_TBA_LO) :
          g.word = JobWord(thr[2].job, REG_SQ_SHADER_TBA_LO)
    /\ \E g \in TrapReg(2, REG_SQ_SHADER_TMA_HI) :
          g.word = JobWord(thr[1].job, REG_SQ_SHADER_TMA_HI)

----------------------------------------------------------------------------
(* Failure paths of amdgpu_device_init, checked under SpecDevice.           *)

IsFirstInitFailure(i) ==
    InitStepFailed(calls[i]) /\ \A k \in 1..(i - 1) : ~InitStepFailed(calls[k])

\* What the stages before position i acquired is given back after it: the
\* driver handle de-initialised, then the device file descriptor closed.
InitUnwoundAfter(i) ==
    \A j \in 1..(i - 1) :
        /\ calls[j].call = "open" =>
               \E k \in (i + 1)..Len(calls) :
                   calls[k].call = "close" /\ calls[k].arg = calls[j].res
        /\ calls[j].call = "amdgpu_device_initialize" =>
               \E k \in (i + 1)..Len(calls) :
                   /\ calls[k].call = "amdgpu_device_deinitialize"
                   /\ \E m \in (k + 1)..Len(calls) : calls[m].call = "close"

\* C33: when amdgpu_device_init fails at any stage (device open, driver
\* initialisation, GPU-info query, submission-context creation), everything
\* the earlier stages of the call acquired has been released before it
\* returns (driver handle de-initialised, device file descriptor closed),
\* and the value returned is the failing stage's error code.
C33_InitFailureUnwinds ==
    (op = "amdgpu_device_init" /\ ret # 0) =>
        /\ \E i \in 1..Len(calls) :
               /\ IsFirstInitFailure(i)
               /\ InitUnwoundAfter(i)
               /\ ret = IF calls[i].call = "open" THEN -calls[i].errno
                        ELSE calls[i].res
        /\ drv.fds = {} /\ drv.devs = {} /\ drv.ctxs = {}


----------------------------------------------------------------------------
(* The growth of the packet array.                                          *)

\* 64 * 2^k for some k.
IsGrownCapacity(n) == \E k \in 0..8 : n = 64 * 2^k

\* C34: for any appends to a stream initialised by pkt3_init, count never
\* exceeds capacity; capacity is 0 exactly while nothing was appended and
\* 64 * 2^k afterwards, and it was doubled only when count had reached it (so
\* the half of a doubled capacity is already used up); an append adds exactly
\* one word at the end and leaves the words before it in place.
C34_AppendGrowth ==
    pc = "idle" =>
        /\ pkts.count <= pkts.capacity
        /\ Len(pkts.data) = pkts.count
        /\ pkts.capacity = 0 <=> pkts.count = 0
        /\ pkts.count > 0 => IsGrownCapacity(pkts.capacity)
        /\ pkts.capacity > 64 => pkts.capacity \div 2 < pkts.count
        /\ op = "da_append" =>
               /\ pkts.count = args.before.count + 1
               /\ SubSeq(pkts.data, 1, args.before.count) = args.before.data
               /\ pkts.data[pkts.count] = args.value
               /\ pkts.capacity =
                      IF args.before.count < args.before.capacity
                      THEN args.before.capacity
                      ELSE IF args.before.capacity = 0 THEN 64
                      ELSE 2 * args.before.capacity

\* An append doubled the capacity for the second time: 128 words were in the
\* stream, of two different values, and the 129th went into a 256-word array.
C34_Witness ==
    /\ pc = "idle" /\ op = "da_append"
    /\ args.before.count = 128 /\ args.before.capacity = 128
    /\ pkts.count = 129 /\ pkts.capacity = 256
    /\ pkts.data[1] # pkts.data[128]

----------------------------------------------------------------------------
(* The upload step of dev_submit.                                           *)

\* The i-th call completed the allocation of the IB: its CPU mapping.
IbMappedAt(i) == calls[i].call = "amdgpu_bo_cpu_map" /\ calls[i].res = 0

\* C35: dev_submit never trips a precondition of bo_upload. Whenever the IB
\* allocation succeeds, the zeroed region is written at its (non-null) CPU
\* address by the very next step and the process goes on; on success the
\* region recorded is CPU-mapped, at least as large as the stream's byte
\* length, and holds the stream in all of these bytes.
C35_UploadNeverAborts ==
    op = "dev_submit" =>
        /\ pc # "aborted"
        /\ \A i \in 1..Len(calls) :
               IbMappedAt(i) =>
                   /\ i + 2 <= Len(calls)
                   /\ calls[i + 1].call = "memset"
                   /\ calls[i + 2].call = "memcpy"
                   /\ calls[i + 2].arg = HostOf(calls[i].arg)
                   /\ calls[i + 2].arg # NULL
        /\ ret = 0 =>
               /\ submit.ib.host_addr # NULL
               /\ ULe(pkt3_size([count |-> args.count]), submit.ib.size)
               /\ \E m \in drv.cpu :
                      /\ m.h = submit.ib.bo_handle
                      /\ \A e \in CellsIn(pkt3_size([count |-> args.count])) :
                             m.mem[e] = "packets"

\* A stream of 1025 words (4100 bytes) was uploaded into an IB of two pages,
\* and the submission failed afterwards.
C35_Witness ==
    /\ op = "dev_submit" /\ pc = "idle" /\ ret # 0
    /\ args.count = 1025
    /\ \E i \in 1..Len(calls) : IbMappedAt(i)
    /\ \E i \in 1..Len(calls) : calls[i].call = "memcpy"

----------------------------------------------------------------------------
(* The output records.                                                      *)

\* One call that returned a failure left the caller's record as it was.
OutputsKept ==
    /\ (op' = "bo_alloc" /\ ret' # 0) => bo' = bo
    /\ (op' = "dev_submit" /\ ret' # 0) => submit' = submit
    /\ (op' = "amdgpu_device_init" /\ ret' # 0) => dev' = dev

\* C36: output records are written only on success. On every failure return
\* bo_alloc leaves the caller's region record unchanged, dev_submit leaves
\* the caller's submission record unchanged, and amdgpu_device_init leaves
\* the caller's device context unchanged.
C36_OutputsOnlyOnSuccess == [][OutputsKept]_vars

\* bo_alloc failed at its last stage, the CPU mapping, on a record that still
\* carried the address, size and kernel handle of a released region.
C36_Witness ==
    /\ op = "bo_alloc" /\ ret # 0 /\ pc = "idle"
    /\ \E i \in 1..Len(calls) :
           calls[i].call = "amdgpu_bo_cpu_map" /\ calls[i].res # 0
    /\ bo.bo_handle = NULL /\ bo.va_addr # 0 /\ bo.kms_handle # 0

----------------------------------------------------------------------------
(* An installation of the trap handler that is cut short.                   *)

\* The filters written during the operation, in order.
FilterCalls == SelectSeq(calls, LAMBDA e : e.call = "ioctl")

\* The execution context whose programming was under way when the process
\* went down: the one of the last filter written (0 when none was).
AbortedVmid ==
    IF FilterCalls = <<>> THEN 0
    ELSE FilterCalls[Len(FilterCalls)].arg.srbm.vmid

\* The register reg of execution context vmid, as the register file has it.
TrapWord(vmid, reg) ==
    {g.word : g \in {x \in drv.regs : /\ x.bank = trap_ioc_data(vmid)
                                       /\ x.off = ByteOffset(reg)}}

\* Context vmid carries the handler tba and the scratch address tma, with
\* the trap enabled.
Programmed(vmid, tba, tma) ==
    /\ TrapWord(vmid, REG_SQ_SHADER_TBA_LO) = {Field(tba, 39, 8)}
    /\ \E w \in TrapWord(vmid, REG_SQ_SHADER_TBA_HI) :
           /\ Cardinality(TrapWord(vmid, REG_SQ_SHADER_TBA_HI)) = 1
           /\ w \cap (0..7) = Field(tba, 47, 40)
           /\ 31 \in w
    /\ TrapWord(vmid, REG_SQ_SHADER_TMA_LO) = {Field(tma, 31, 0)}
    /\ TrapWord(vmid, REG_SQ_SHADER_TMA_HI) = {Field(tma, 63, 32)}

\* C37: trap installation is not atomic and has no rollback. When a register
\* access aborts while dev_setup_trap_handler is programming execution
\* context k (1 <= k <= 8), contexts 1..k-1 remain fully programmed with the
\* new handler and scratch addresses and the trap enabled, and contexts
\* k+1..8 are untouched.
C37_PartialInstall ==
    (op = "dev_setup_trap_handler" /\ pc = "aborted" /\ AbortedVmid # 0) =>
        /\ AbortedVmid \in 1..8
        /\ calls[Len(calls)].call = "abort"
        /\ \A v \in 1..(AbortedVmid - 1) : Programmed(v, args.tba, args.tma)
        /\ \A v \in (AbortedVmid + 1)..8 :
               \A g \in drv.regs : g.bank.srbm.vmid # v

\* The write of the third register of context 5 came back short: contexts
\* 1..4 and two registers of context 5 are programmed, 18 registers in all.
C37_Witness ==
    /\ op = "dev_setup_trap_handler" /\ pc = "aborted"
    /\ AbortedVmid = 5
    /\ Cardinality(drv.regs) = 18
    /\ Programmed(4, args.tba, args.tma)
    /\ calls[Len(calls) - 1].call = "write" /\ calls[Len(calls) - 1].res = 2

----------------------------------------------------------------------------
(* Precondition faults and what was done before them.                       *)

\* The process went down at once: nothing was issued but the abort.
OnlyAborted ==
    pc = "aborted" /\ Len(calls) = 1 /\ calls[1].call = "abort"

\* The builder in progress went down in the range check of a register write.
RangeFault ==
    /\ pc = "aborted"
    /\ calls[Len(calls)].call = "abort"
    /\ calls[Len(calls)].arg = "register offset outside SH register range"

\* C38: precondition faults happen before any side effect.
\* dev_setup_trap_handler with a misaligned handler address aborts before any
\* register write; dev_op_reg32 with a closed register file, an out-of-range
\* register or a null value pointer aborts before the filter write, the seek
\* and the access; pkt3_set_sh_reg with an offset outside the SH window and
\* build_compute_dispatch with a misaligned code address abort before a word
\* is appended to the stream (a register write that build_compute_dispatch
\* issues itself adds no word either when it aborts: the stream then ends
\* with the seven words of the barrier).
C38_FaultsBeforeEffects ==
    /\ (op = "dev_setup_trap_handler" /\ args.tba \cap (0..7) # {}) =>
           OnlyAborted /\ drv.regs = {}
    /\ (op = "dev_op_reg32" /\ (\/ dev.regs2_fd < 0
                                \/ ~(args.reg < REG_MAX)
                                \/ args.value.addr = NULL)) =>
           OnlyAborted
    /\ (op = "pkt3_set_sh_reg"
          /\ ~(args.reg >= SI_SH_REG_OFFSET /\ args.reg < SI_SH_REG_END)) =>
           OnlyAborted /\ pkts = args.before
    /\ (op = "build_compute_dispatch" /\ args.code_va \cap (0..7) # {}) =>
           OnlyAborted /\ pkts = args.before
    /\ (op = "build_compute_dispatch" /\ args.code_va \cap (0..7) = {}
          /\ RangeFault) =>
           /\ pkts.count = args.before.count + 7
           /\ SubSeq(pkts.data, 1, args.before.count) = args.before.data
           /\ pkts.data[args.before.count + 1] = PKT3(PKT3_ACQUIRE_MEM, 5, 0)

\* A register write at the end of the SH window (0x3000) on a stream that
\* holds words: the process is down and the stream is as it was.
C38_Witness ==
    /\ op = "pkt3_set_sh_reg" /\ pc = "aborted"
    /\ args.reg = SI_SH_REG_END
    /\ pkts.count > 0 /\ pkts = args.before

====
